---------------------------- MODULE Spec2Model ----------------------------
(***************************************************************************)
(* A model of the FinQs rubric grading engine (grade_answers.py).          *)
(*                                                                         *)
(* Texts are TLA+ strings, read character by character with SubSeq, so     *)
(* that lower-casing, stripping, regular-expression tokenising and         *)
(* substring search are computed the way the Python code computes them.    *)
(* Scores are exact rationals <<numerator, denominator>> while they are    *)
(* being computed; round(x, 1) turns them into a number of tenths          *)
(* (75.0 is written 750).                                                  *)
(***************************************************************************)
EXTENDS Integers, Sequences, FiniteSets, TLC

VARIABLES
    pc,              \* position of main() / of the harness
    csv_rows,        \* the rows of the ground-truth table (public.csv)
    answers_list,    \* load_answers: the JSON array read from answers.json
    ground_truth,    \* main: mapping question number -> question record
    answers,         \* main: mapping question number -> answer record
    q_num,           \* main: loop variable of the grading loop
    graded_results,  \* main: list of GradingResult
    g,               \* locals of the running grade_answer call
    output,          \* the report written to grading_results.json
    raised,          \* main: the exception that ended the run, if any
    search,          \* EDGARSearch.search: argument and locals of the retry loop
    criterion_text,  \* check_criterion: argument
    answer,          \* check_criterion: argument
    cc_result,       \* check_criterion: returned (is_met, evidence)
    error_msg,       \* is_token_limit_error: argument
    is_token_limit,  \* is_token_limit_error: returned value
    script           \* locals of the running accumulation script

vars == <<pc, csv_rows, answers_list, ground_truth, answers, q_num,
          graded_results, g, output, raised, search, criterion_text, answer,
          cc_result, error_msg, is_token_limit, script>>

mainVars == <<csv_rows, answers_list, ground_truth, answers, q_num,
              graded_results, g, output, raised>>

ccVars == <<criterion_text, answer, cc_result>>

tlVars == <<error_msg, is_token_limit>>

\* no accumulation script is running; runs counts the finished runs
IdleScript == [name |-> "", answers |-> <<>>, new_answers |-> <<>>, runs |-> 0]

\* no exception
NoError == [type |-> "", shown |-> ""]

\* no exception of the HTTP client
NoException == [class |-> "", status |-> 0, message |-> ""]

\* EDGARSearch.search before it is called
IdleSearch == [top_n_results |-> 0, tries |-> 0, e |-> NoException,
               wait_cap |-> 0, result |-> <<>>]

\* the locals of grade_answer before a call binds them
IdleLocals ==
    [answer_text |-> "", sources |-> <<>>, rubric |-> <<>>, status |-> "",
     met_count |-> 0, rubric_results |-> <<>>, correctness_score |-> <<0, 1>>,
     has_contradictions |-> FALSE, sources_quality |-> ""]

(***************************************************************************)
(* Characters and the Python string operations the grader uses.            *)
(***************************************************************************)
UpperCase == "ABCDEFGHIJKLMNOPQRSTUVWXYZ"
LowerCase == "abcdefghijklmnopqrstuvwxyz"
Digits == "0123456789"

Ch(t, i) == SubSeq(t, i, i)

CharsOf(t) == {Ch(t, i) : i \in 1..Len(t)}

\* str.strip(), str.split() and \s: the ASCII whitespace characters
Whitespace == {" ", "\t", "\n", "\r", "\f"}

\* \d
DigitChars == CharsOf(Digits)

UpperChars == CharsOf(UpperCase)

\* \w
WordChars == UpperChars \cup CharsOf(LowerCase) \cup DigitChars \cup {"_"}

\* [\d,]
NumberChars == DigitChars \cup {","}

\* the lower-case letter of each upper-case letter
LowerOf == [c \in UpperChars |->
               Ch(LowerCase, CHOOSE i \in 1..Len(UpperCase) : Ch(UpperCase, i) = c)]

\* str.lower() on one character
LowerChar(c) == IF c \in UpperChars THEN LowerOf[c] ELSE c

RECURSIVE Lower(_)
\* str.lower(), computed on the two halves of the text
Lower(t) ==
    IF t = "" THEN ""
    ELSE IF Len(t) = 1 THEN LowerChar(t)
    ELSE Lower(SubSeq(t, 1, Len(t) \div 2)) \o Lower(SubSeq(t, Len(t) \div 2 + 1, Len(t)))

RECURSIVE SpanEnd(_, _, _, _)
\* first index >= i whose character is (member = FALSE) or is not
\* (member = TRUE) in S; Len(t) + 1 when there is none.  The text is
\* scanned eight characters at a time.
SpanEnd(t, i, S, member) ==
    LET last == IF i + 7 < Len(t) THEN i + 7 ELSE Len(t)
        stops == {j \in i..last : (Ch(t, j) \in S) # member}
    IN  IF i > Len(t) THEN i
        ELSE IF stops # {} THEN CHOOSE j \in stops : \A k \in stops : j <= k
        ELSE IF last = Len(t) THEN Len(t) + 1
        ELSE SpanEnd(t, last + 1, S, member)

\* str.strip()
Strip(t) ==
    LET first == SpanEnd(t, 1, Whitespace, TRUE)
        last == CHOOSE j \in 0..Len(t) :
                    /\ \A k \in (j + 1)..Len(t) : Ch(t, k) \in Whitespace
                    /\ j = 0 \/ Ch(t, j) \notin Whitespace
    IN  IF first > Len(t) THEN "" ELSE SubSeq(t, first, last)

\* needle in hay
Contains(hay, needle) ==
    \E i \in 1..(Len(hay) - Len(needle) + 1) :
        SubSeq(hay, i, i + Len(needle) - 1) = needle

RECURSIVE RemoveChar(_, _)
\* str.replace(c, '')
RemoveChar(t, c) ==
    IF t = "" \/ t = c THEN ""
    ELSE IF Len(t) = 1 THEN t
    ELSE RemoveChar(SubSeq(t, 1, Len(t) \div 2), c)
           \o RemoveChar(SubSeq(t, Len(t) \div 2 + 1, Len(t)), c)

RECURSIVE Join(_, _)
\* sep.join(parts)
Join(parts, sep) ==
    IF parts = <<>> THEN ""
    ELSE IF Len(parts) = 1 THEN parts[1]
    ELSE parts[1] \o sep \o Join(Tail(parts), sep)

RECURSIVE RunsFrom(_, _, _, _)
\* the maximal runs of characters that are (member = TRUE) or are not
\* (member = FALSE) in S, from index i on, left to right
RunsFrom(t, i, S, member) ==
    LET b == SpanEnd(t, i, S, ~member)
        e == SpanEnd(t, b, S, member)
    IN  IF b > Len(t) THEN <<>>
        ELSE <<SubSeq(t, b, e - 1)>> \o RunsFrom(t, e, S, member)

\* str.split() with no argument
SplitWhitespace(t) == RunsFrom(t, 1, Whitespace, FALSE)

\* re.findall(r'\b\w+\b', t)
FindWords(t) == RunsFrom(t, 1, WordChars, TRUE)

RECURSIVE SplitOn(_, _)
\* re.split on a character class: the pieces between separators, empty
\* pieces included
SplitOn(t, seps) ==
    LET e == SpanEnd(t, 1, seps, FALSE)
    IN  IF e > Len(t) THEN <<t>>
        ELSE <<SubSeq(t, 1, e - 1)>> \o SplitOn(SubSeq(t, e + 1, Len(t)), seps)

\* end (exclusive) of the match of [\d,]+\.?\d*%? that starts at i
NumberEnd(t, i) ==
    LET j1 == SpanEnd(t, i, NumberChars, TRUE)
        j2 == IF j1 <= Len(t) /\ Ch(t, j1) = "." THEN j1 + 1 ELSE j1
        j3 == SpanEnd(t, j2, DigitChars, TRUE)
    IN  IF j3 <= Len(t) /\ Ch(t, j3) = "%" THEN j3 + 1 ELSE j3

RECURSIVE FindNumbersFrom(_, _)
FindNumbersFrom(t, i) ==
    LET b == SpanEnd(t, i, NumberChars, FALSE)
        e == NumberEnd(t, b)
    IN  IF b > Len(t) THEN <<>>
        ELSE <<SubSeq(t, b, e - 1)>> \o FindNumbersFrom(t, e)

\* re.findall(r'[\d,]+\.?\d*%?', t)
FindNumbers(t) == FindNumbersFrom(t, 1)

\* re.sub(r'^final answer:\s*', '', t, flags=re.IGNORECASE)
StripFinalAnswerPrefix(t) ==
    LET marker == "final answer:"
    IN  IF Len(t) >= Len(marker) /\ Lower(SubSeq(t, 1, Len(marker))) = marker
        THEN SubSeq(t, SpanEnd(t, Len(marker) + 1, Whitespace, TRUE), Len(t))
        ELSE t

SeqToSet(s) == {s[i] : i \in 1..Len(s)}

\* round-half-even of n / d to an integer (n >= 0, d > 0)
RoundHalfEven(n, d) ==
    LET q == n \div d
        r == n % d
    IN  IF 2 * r < d THEN q
        ELSE IF 2 * r > d THEN q + 1
        ELSE IF q % 2 = 0 THEN q ELSE q + 1

(***************************************************************************)
(* check_criterion: the three lexical heuristics.                          *)
(***************************************************************************)
StopWords == {"the", "and", "for", "that", "this", "with", "from", "were",
              "have", "has", "was"}

\* len(w) > 3
MinWordLen == 3

\* len(criterion_text) < 100
ShortCriterionLen == 100

\* the numeric check with the commas removed from the answer only
NumericCoverage_KeepCommas(text, answer_clean) ==
    LET numbers == FindNumbers(text)
        all_found == \A n \in 1..Len(numbers) :
                        Contains(RemoveChar(answer_clean, ","), numbers[n])
    IN  [ok |-> numbers # <<>> /\ all_found,
         evidence |-> "Found required numbers: " \o Join(numbers, ", ")]

\* lines 72-80: ok iff there are numbers and each occurs in the answer once
\* the commas are removed from both
NumericCoverage(text, answer_clean) ==
    LET numbers == FindNumbers(text)
        all_found == \A n \in 1..Len(numbers) :
                        Contains(RemoveChar(answer_clean, ","), RemoveChar(numbers[n], ","))
    IN  [ok |-> numbers # <<>> /\ all_found,
         evidence |-> "Found required numbers: " \o Join(numbers, ", ")]

\* line 83: the stripped, non-empty pieces between ':' and newline
KeyPhrases(text) ==
    LET pieces == SplitOn(text, {":", "\n"})
        stripped == [i \in 1..Len(pieces) |-> Strip(pieces[i])]
    IN  SelectSeq(stripped, LAMBDA p : p # "")

\* lines 91-92: the key words of a phrase
KeyWords(phrase) ==
    SelectSeq(SplitWhitespace(Lower(phrase)),
              LAMBDA w : Len(w) > MinWordLen /\ w \notin StopWords)

\* a phrase without key words counted as a match
PhraseMatches_EmptyCounts(phrase, answer_lower) ==
    LET words == KeyWords(phrase)
        found_words == Len(SelectSeq(words, LAMBDA w : Contains(answer_lower, w)))
    IN  2 * found_words >= Len(words)

\* lines 94-98: does the phrase count as a match
PhraseMatches(phrase, answer_lower) ==
    LET words == KeyWords(phrase)
        found_words == Len(SelectSeq(words, LAMBDA w : Contains(answer_lower, w)))
    IN  words # <<>> /\ 2 * found_words >= Len(words)

\* lines 82-101
KeyPhraseCoverage(text, answer_lower) ==
    LET key_phrases == KeyPhrases(text)
        total == Len(key_phrases)
        matches == Len(SelectSeq(key_phrases, LAMBDA p : PhraseMatches(p, answer_lower)))
    IN  [ok |-> total > 0 /\ 10 * matches >= 6 * total,
         evidence |-> "Found " \o ToString(matches) \o "/" \o ToString(total)
                        \o " key concepts from criterion"]

\* lines 106-107: the lower-cased word tokens longer than 3 characters
LongWords(t) == {Lower(w) : w \in {x \in SeqToSet(FindWords(t)) : Len(x) > MinWordLen}}

\* the fallback attempted up to and including the limit length
WordOverlap_LimitIncluded(text, answer_text) ==
    LET criterion_words == LongWords(text)
        answer_words == LongWords(answer_text)
        common == Cardinality(criterion_words \cap answer_words)
        n == Cardinality(criterion_words)
    IN  [ok |-> /\ Len(text) <= ShortCriterionLen
                /\ criterion_words # {}
                /\ 10 * common >= 6 * n,
         evidence |-> IF n = 0 THEN ""
                      ELSE "Strong word overlap ("
                             \o ToString(RoundHalfEven(100 * common, n))
                             \o "%) with criterion"]

\* lines 104-112
WordOverlap(text, answer_text) ==
    LET criterion_words == LongWords(text)
        answer_words == LongWords(answer_text)
        common == Cardinality(criterion_words \cap answer_words)
        n == Cardinality(criterion_words)
    IN  [ok |-> /\ Len(text) < ShortCriterionLen
                /\ criterion_words # {}
                /\ 10 * common >= 6 * n,
         evidence |-> IF n = 0 THEN ""
                      ELSE "Strong word overlap ("
                             \o ToString(RoundHalfEven(100 * common, n))
                             \o "%) with criterion"]

\* the emptiness test without the strip
IsBlank_NoStrip(t) == t = ""

\* answer.strip() == "" (an empty answer included)
IsBlank(t) == t = "" \/ Strip(t) = ""

\* the key-phrase check consulted before the numeric check
check_criterion_PhrasesFirst(text, answer_text, reference) ==
    IF IsBlank(answer_text) THEN <<FALSE, "No answer provided">>
    ELSE
        LET answer_lower == Lower(answer_text)
            answer_clean == StripFinalAnswerPrefix(answer_lower)
            numeric == NumericCoverage(text, answer_clean)
            phrases == KeyPhraseCoverage(text, answer_lower)
            overlap == WordOverlap(text, answer_text)
        IN  IF phrases.ok THEN <<TRUE, phrases.evidence>>
            ELSE IF numeric.ok THEN <<TRUE, numeric.evidence>>
            ELSE IF overlap.ok THEN <<TRUE, overlap.evidence>>
            ELSE <<FALSE, "Criterion not clearly met in answer">>

\* lines 57-114; the result is <<is_met, evidence>>
check_criterion(text, answer_text, reference) ==
    IF IsBlank(answer_text) THEN <<FALSE, "No answer provided">>
    ELSE
        LET answer_lower == Lower(answer_text)
            answer_clean == StripFinalAnswerPrefix(answer_lower)
            numeric == NumericCoverage(text, answer_clean)
            phrases == KeyPhraseCoverage(text, answer_lower)
            overlap == WordOverlap(text, answer_text)
        IN  IF numeric.ok THEN <<TRUE, numeric.evidence>>
            ELSE IF phrases.ok THEN <<TRUE, phrases.evidence>>
            ELSE IF overlap.ok THEN <<TRUE, overlap.evidence>>
            ELSE <<FALSE, "Criterion not clearly met in answer">>

(***************************************************************************)
(* Inputs of check_criterion: criteria built from a pool of phrases joined *)
(* by ':', as short as written or padded with blanks to one character      *)
(* below and to exactly the short-criterion limit; answers from a pool.    *)
(***************************************************************************)
MaxPhrases == 3

PhrasePool == {"Revenue grew 44.7%", "EPS", "Gross-margin up",
               "Income from operations rose", "Debt 1,250"}

RECURSIVE Blanks(_)
Blanks(n) ==
    IF n <= 0 THEN ""
    ELSE IF n = 1 THEN " "
    ELSE Blanks(n \div 2) \o Blanks(n - n \div 2)

PadTo(t, n) == t \o Blanks(n - Len(t))

PhraseLists == UNION {[1..n -> PhrasePool] : n \in 1..MaxPhrases}

\* criteria that hold a comma or a full stop and no digit
DigitFreeTexts == {"Costs, net of tax", "Costs fell, margins rose: EPS", "Margins rose."}

CriterionTexts ==
    {PadTo(Join(ps, ": "), n) :
        ps \in PhraseLists, n \in {0, ShortCriterionLen - 1, ShortCriterionLen}}
    \cup DigitFreeTexts

AnswerTexts == {"", "  ", " \n\t",
                "FINAL ANSWER: Revenue grew 44.7%",
                "44%",
                "Revenue grew 44%",
                "final answer: INCOME ROSE, debt 1250",
                "Final Answer: gross margin up 144.7%",
                "I think operations rose from 1,250"}

InitCriterion ==
    /\ pc = "call"
    /\ criterion_text \in CriterionTexts
    /\ answer \in AnswerTexts
    /\ cc_result = <<FALSE, "">>
    /\ csv_rows = <<>> /\ answers_list = <<>>
    /\ ground_truth = <<>> /\ answers = <<>>
    /\ q_num = 0 /\ graded_results = <<>> /\ g = IdleLocals
    /\ output = [written |-> FALSE]
    /\ raised = NoError
    /\ search = IdleSearch
    /\ error_msg = "" /\ is_token_limit = FALSE /\ script = IdleScript

\* one call of check_criterion
CheckCriterion ==
    /\ pc = "call"
    /\ cc_result' = check_criterion(criterion_text, answer, "")
    /\ pc' = "returned"
    /\ UNCHANGED <<criterion_text, answer>>
    /\ UNCHANGED <<mainVars, search, tlVars, script>>

NextCriterion == CheckCriterion

SpecCriterion == InitCriterion /\ [][NextCriterion]_vars

(***************************************************************************)
(* The grading engine: loaders, grade_answer, calculate_summary, main.     *)
(***************************************************************************)
\* dict[k] = v
Put(f, k, v) == [x \in DOMAIN f \cup {k} |-> IF x = k THEN v ELSE f[x]]

\* dict.get(k, default) on a record
Get(r, k, default) == IF k \in DOMAIN r THEN r[k] ELSE default

\* the part of an integer literal after the surrounding whitespace and the
\* sign
IntBody(text) ==
    LET t == Strip(text)
    IN  IF t # "" /\ Ch(t, 1) \in {"+", "-"} THEN SubSeq(t, 2, Len(t)) ELSE t

\* int(text) succeeds: digits, with single underscores between them, after
\* optional whitespace and an optional sign
IsIntLiteral(text) ==
    LET b == IntBody(text)
    IN  /\ b # ""
        /\ \A i \in 1..Len(b) : Ch(b, i) \in DigitChars \cup {"_"}
        /\ Ch(b, 1) # "_" /\ Ch(b, Len(b)) # "_"
        /\ ~Contains(b, "__")

DigitValue == [c \in DigitChars |-> (CHOOSE i \in 1..Len(Digits) : Ch(Digits, i) = c) - 1]

RECURSIVE DigitsValue(_, _)
\* the value of a string of digits, acc being the value of those read so far
DigitsValue(t, acc) ==
    IF t = "" THEN acc
    ELSE DigitsValue(SubSeq(t, 2, Len(t)), 10 * acc + DigitValue[Ch(t, 1)])

\* int(text) of an integer literal
IntOf(text) ==
    LET value == DigitsValue(RemoveChar(IntBody(text), "_"), 0)
    IN  IF Ch(Strip(text), 1) = "-" THEN 0 - value ELSE value

\* a Rubric cell that holds the Python literal of the list rubric
Literal(rubric) == [parses |-> TRUE, value |-> rubric]

\* a Rubric cell whose text is not a Python expression
MalformedCell(text) == [parses |-> FALSE, text |-> text]

\* row[column] of a row that lacks the column
KeyError(column) == [type |-> "KeyError", shown |-> "'" \o column \o "'"]

\* lines 19-26: the exception raised while a row is read, NoError when the
\* row is read or skipped.  The traceback shows the key of a KeyError, the
\* source text of a SyntaxError and the literal of a ValueError.
RowError(row) ==
    IF "Question" \notin DOMAIN row THEN KeyError("Question")
    ELSE IF row.Question = "" THEN NoError
    ELSE IF "Rubric" \notin DOMAIN row THEN KeyError("Rubric")
    ELSE IF ~row.Rubric.parses
    THEN [type |-> "SyntaxError", shown |-> row.Rubric.text]
    ELSE IF "Answer" \notin DOMAIN row THEN KeyError("Answer")
    ELSE IF "QuestionType" \notin DOMAIN row THEN KeyError("Question Type")
    ELSE IF "ExpertTime" \notin DOMAIN row THEN KeyError("Expert time (mins)")
    ELSE IF ~IsIntLiteral(row.ExpertTime)
    THEN [type |-> "ValueError",
          shown |-> "invalid literal for int() with base 10: '" \o row.ExpertTime \o "'"]
    ELSE NoError

\* line 19: the rows that are not skipped
NonEmptyRows(rows) == {i \in 1..Len(rows) : rows[i].Question # ""}

\* question_num when row i is read, with the counter advanced on every row
QuestionNumOf_CountsEmptyRows(rows, i) == i

\* lines 17, 19 and 29: question_num when row i is read, the counter having
\* started at 1 and advanced once for each earlier row that was not skipped
QuestionNumOf(rows, i) == 1 + Cardinality({j \in NonEmptyRows(rows) : j < i})

\* lines 22-28: the entry made for a row
EntryOf(row) ==
    [question |-> row.Question,
     answer |-> row.Answer,
     question_type |-> row.QuestionType,
     expert_time |-> IntOf(row.ExpertTime),
     rubric |-> row.Rubric.value]

\* lines 12-30: the exception raised at the first row that cannot be read,
\* or else the mapping returned, which has an entry under question_num for
\* each row that was not skipped
load_ground_truth(rows) ==
    LET failing == {i \in 1..Len(rows) : RowError(rows[i]) # NoError}
        numbers == {QuestionNumOf(rows, i) : i \in NonEmptyRows(rows)}
    IN  IF failing # {}
        THEN [raised |-> RowError(rows[CHOOSE i \in failing : \A j \in failing : i <= j]),
              value |-> <<>>]
        ELSE [raised |-> NoError,
              value |-> [k \in numbers |->
                            EntryOf(rows[CHOOSE i \in NonEmptyRows(rows) :
                                            /\ QuestionNumOf(rows, i) = k
                                            /\ \A j \in NonEmptyRows(rows) :
                                                  QuestionNumOf(rows, j) = k => j <= i])]]

RECURSIVE AnswersFrom(_, _)
\* lines 37-43: the loop over the JSON array, acc being the dict built so far
AnswersFrom(list, acc) ==
    IF list = <<>> THEN acc
    ELSE LET item == Head(list)
         IN  AnswersFrom(Tail(list),
                 Put(acc, item.question_number,
                     [question |-> item.question,
                      answer |-> Get(item, "answer", ""),
                      sources |-> Get(item, "sources", <<>>)]))

RECURSIVE Reverse(_)
Reverse(seq) == IF seq = <<>> THEN <<>> ELSE Append(Reverse(Tail(seq)), Head(seq))

\* load_answers keeping the first object of each question number
load_answers_FirstWins(list) == AnswersFrom(Reverse(list), <<>>)

\* lines 32-44
load_answers(list) == AnswersFrom(list, <<>>)

\* the tiers with their upper bounds excluded
categorize_difficulty_BoundsExcluded(question_type, expert_time) ==
    IF expert_time < 5 THEN "Easy"
    ELSE IF expert_time < 15 THEN "Medium"
    ELSE IF expert_time < 30 THEN "Hard"
    ELSE "Very Hard"

\* lines 46-55
categorize_difficulty(question_type, expert_time) ==
    IF expert_time <= 5 THEN "Easy"
    ELSE IF expert_time <= 15 THEN "Medium"
    ELSE IF expert_time <= 30 THEN "Hard"
    ELSE "Very Hard"

\* lines 124-129
StatusOf(answer_text) ==
    IF IsBlank(answer_text) THEN "Skipped"
    ELSE IF Contains(answer_text, "FINAL ANSWER:") THEN "Answered"
    ELSE "Attempted"

\* the criteria of any operator but contradiction taken as correctness ones
CriteriaOf_OthersAsCorrectness(rubric, operator) ==
    SelectSeq(rubric, LAMBDA r : IF operator = "correctness"
                                 THEN r.operator # "contradiction"
                                 ELSE r.operator = operator)

\* lines 132-133
CriteriaOf(rubric, operator) == SelectSeq(rubric, LAMBDA r : r.operator = operator)

\* lines 140-151 and 167-178: the rubric_results entry of one criterion
ResultEntry(type, criteria, r) ==
    [type |-> type, criteria |-> criteria, met |-> r[1], evidence |-> r[2]]

RubricResult(type, criterion, answer_text, reference) ==
    ResultEntry(type, criterion.criteria,
                check_criterion(criterion.criteria, answer_text, reference))

\* the rubric_results entries of the criteria of one type, in rubric order
RubricResults(type, criteria, answer_text, reference) ==
    [i \in 1..Len(criteria) |-> RubricResult(type, criteria[i], answer_text, reference)]

\* lines 136-151: met_count, counted over the correctness entries
MetCount(results) == Len(SelectSeq(results, LAMBDA r : r.met))

\* has_contradictions set whatever the status
HasContradictions_AnyStatus(results, status) ==
    \E i \in 1..Len(results) : ~results[i].met

\* lines 163-182: the flag after the loop over the contradiction criteria,
\* results being their rubric_results entries
HasContradictions(results, status) ==
    \E i \in 1..Len(results) : ~results[i].met /\ status = "Answered"

\* round(x, 1) of the rational x = s[1] / s[2], as a number of tenths; the
\* scores of the rubrics graded here never lie half-way between two tenths
Round1(s) == RoundHalfEven(10 * s[1], s[2])

\* the score without the Skipped case of a rubric without correctness criteria
CorrectnessScore_NoSkippedCase(met_count, n_criteria, status) ==
    IF n_criteria > 0 THEN <<100 * met_count, n_criteria>> ELSE <<50, 1>>

\* lines 157-160
CorrectnessScore(met_count, n_criteria, status) ==
    IF n_criteria > 0 THEN <<100 * met_count, n_criteria>>
    ELSE IF status = "Skipped" THEN <<0, 1>> ELSE <<50, 1>>

\* the penalty applied up to and including a score of 30
Penalized_ThresholdIncluded(score, has_contradictions) ==
    IF has_contradictions /\ score[1] <= 30 * score[2]
    THEN (IF score[1] - 20 * score[2] > 0
          THEN <<score[1] - 20 * score[2], score[2]>> ELSE <<0, 1>>)
    ELSE score

\* the penalty without the floor at 0
Penalized_NoFloor(score, has_contradictions) ==
    IF has_contradictions /\ score[1] < 30 * score[2]
    THEN <<score[1] - 20 * score[2], score[2]>>
    ELSE score

\* lines 185-186
Penalized(score, has_contradictions) ==
    IF has_contradictions /\ score[1] < 30 * score[2]
    THEN (IF score[1] - 20 * score[2] > 0
          THEN <<score[1] - 20 * score[2], score[2]>> ELSE <<0, 1>>)
    ELSE score

\* s.get('url', '').lower() names an investor-relations or SEC page
IsPrimarySource(s) ==
    LET url == Lower(Get(s, "url", ""))
    IN  Contains(url, "sec.gov") \/ Contains(url, "investor") \/ Contains(url, "ir.")

\* the tier with one primary source sufficing for Good
SourcesQuality_OneSuffices(sources) ==
    IF Len(sources) = 0 THEN "Poor"
    ELSE IF \E i \in 1..Len(sources) : IsPrimarySource(sources[i]) THEN "Good"
    ELSE IF Len(sources) >= 1 THEN "Acceptable"
    ELSE "Poor"

\* lines 189-198
SourcesQuality(sources) ==
    IF Len(sources) = 0 THEN "Poor"
    ELSE IF Len(sources) >= 2 /\ \E i \in 1..Len(sources) : IsPrimarySource(sources[i])
    THEN "Good"
    ELSE IF Len(sources) >= 1 THEN "Acceptable"
    ELSE "Poor"

\* the final score without the halving of an attempt
FinalScore_AttemptedFull(status, score) ==
    IF status = "Skipped" THEN <<0, 1>> ELSE score

\* the partial credit applied to the Answered, not the Attempted
FinalScore_AnsweredHalved(status, score) ==
    IF status = "Skipped" THEN <<0, 1>>
    ELSE IF status = "Answered" THEN <<score[1], 2 * score[2]>>
    ELSE score

\* lines 201-208
FinalScore(status, score) ==
    IF status = "Skipped" THEN <<0, 1>>
    ELSE IF status = "Attempted" THEN <<score[1], 2 * score[2]>>
    ELSE score

\* lines 203-212
Comments(status, met_count, n_criteria, has_contradictions, sources_quality) ==
    LET met == "Met " \o ToString(met_count) \o "/" \o ToString(n_criteria)
                 \o " rubric criteria."
    IN  IF status = "Skipped" THEN "Question was skipped - no answer provided"
        ELSE IF status = "Attempted"
        THEN "Answer was attempted but may not be complete. " \o met
        ELSE IF has_contradictions
        THEN "Answer provided but has contradictions. " \o met
               \o " Sources: " \o sources_quality \o "."
        ELSE "Answer provided. " \o met \o " Sources: " \o sources_quality \o "."

RECURSIVE SumOf(_)
\* sum(seq), computed on the two halves of the list
SumOf(seq) ==
    IF seq = <<>> THEN 0
    ELSE IF Len(seq) = 1 THEN seq[1]
    ELSE SumOf(SubSeq(seq, 1, Len(seq) \div 2))
           + SumOf(SubSeq(seq, Len(seq) \div 2 + 1, Len(seq)))

\* the mean cut off after one decimal
RoundedMean_CutOff(scores) == {SumOf(scores) \div Len(scores)}

\* round(sum(scores) / len(scores), 1) for scores given in tenths.  The
\* division is a floating-point one: when the exact mean lies half-way
\* between two tenths, the binary value lies on either side of it and round
\* can return either neighbour.
RoundedMean(scores) ==
    LET total == SumOf(scores)
        n == Len(scores)
        q == total \div n
        r == total % n
    IN  IF 2 * r < n THEN {q}
        ELSE IF 2 * r > n THEN {q + 1}
        ELSE {q, q + 1}

FinalScores(results) == [i \in 1..Len(results) |-> results[i].final_score]

RECURSIVE GroupStatsOver(_, _, _)
GroupStatsOver(results, key, keys) ==
    IF keys = {} THEN {<<>>}
    ELSE LET k == CHOOSE x \in keys : TRUE
             scores == FinalScores(SelectSeq(results, LAMBDA r : r[key] = k))
         IN  {Put(f, k, m) : f \in GroupStatsOver(results, key, keys \ {k}),
                             m \in RoundedMean(scores)}

\* lines 240-247 and 250-257: the means of the final scores of the results
\* that share a value of the field key
GroupStats(results, key) ==
    GroupStatsOver(results, key, {results[i][key] : i \in 1..Len(results)})

\* the count of the results of a status that have a score
CountStatus_Scored(results, status) ==
    Len(SelectSeq(results, LAMBDA r : r.status = status /\ r.final_score > 0))

\* lines 233-235
CountStatus(results, status) == Len(SelectSeq(results, LAMBDA r : r.status = status))

\* lines 230-267: the summaries calculate_summary can return
calculate_summary(results) ==
    {[total_questions |-> Len(results),
      answered |-> CountStatus(results, "Answered"),
      attempted |-> CountStatus(results, "Attempted"),
      skipped |-> CountStatus(results, "Skipped"),
      average_score |-> avg,
      by_difficulty |-> d,
      by_question_type |-> t] :
        avg \in (IF Len(results) > 0 THEN RoundedMean(FinalScores(results)) ELSE {0}),
        d \in GroupStats(results, "difficulty"),
        t \in GroupStats(results, "question_type")}

(***************************************************************************)
(* Inputs of a grading run.                                                *)
(***************************************************************************)
\* range(1, 51)
LastQuestion == 50

Criterion(operator, text) == [operator |-> operator, criteria |-> text]

RECURSIVE Repeat(_, _)
\* the list [c] * n
Repeat(c, n) == IF n <= 0 THEN <<>> ELSE <<c>> \o Repeat(c, n - 1)

RowCycle ==
    << [Question |-> "How much did revenue grow?",
        Answer |-> "Revenue grew 44.7%",
        Rubric |-> Literal(<< Criterion("correctness", "Revenue grew 44.7%"),
                              Criterion("correctness", "Income from operations rose"),
                              Criterion("contradiction", "Debt 1,250") >>),
        QuestionType |-> "Financial Metrics",
        ExpertTime |-> "5"],
       [Question |-> "Did the gross margin move?",
        Answer |-> "Gross margin up",
        Rubric |-> Literal(<< Criterion("contradiction", "Gross-margin up") >>),
        QuestionType |-> "Market Analysis",
        ExpertTime |-> "15"],
       [Question |-> "Summarise the quarter",
        Answer |-> "Revenue grew 44.7%, debt 1,250",
        Rubric |-> Literal(<< Criterion("correctness", "Revenue grew 44.7%"),
                              Criterion("format", "Revenue grew 44.7%"),
                              Criterion("correctness", "Income from operations rose"),
                              Criterion("correctness", "Debt 1,250"),
                              Criterion("correctness", "EPS") >>),
        QuestionType |-> "Financial Metrics",
        ExpertTime |-> "31"],
       [Question |-> "Walk through every line of the statement",
        Answer |-> "Revenue grew 44.7%, debt 1,250, cash flow positive",
        Rubric |-> Literal(<< Criterion("contradiction", "Gross-margin up") >>
                           \o Repeat(Criterion("correctness", "Revenue grew 44.7%"), 6)
                           \o << Criterion("correctness", "Income from operations rose") >>
                           \o Repeat(Criterion("correctness", "Debt 1,250"), 2)
                           \o << Criterion("correctness", "Cash flow positive") >>
                           \o Repeat(Criterion("correctness", "EPS"), 20)),
        QuestionType |-> "Market Analysis",
        ExpertTime |-> " 30 "] >>

\* a table row whose cells are empty
EmptyRow ==
    [Question |-> "", Answer |-> "", Rubric |-> MalformedCell(""),
     QuestionType |-> "", ExpertTime |-> ""]

\* rows that load_ground_truth cannot read
BadRows ==
    { [RowCycle[1] EXCEPT !.Rubric =
          MalformedCell("[{'operator': 'correctness', 'criteria': 'EPS'}")],
      [RowCycle[3] EXCEPT !.Rubric = MalformedCell("")],
      [RowCycle[2] EXCEPT !.ExpertTime = "n/a"] }

\* tables of up to MaxRows rows, and tables of LastQuestion and more rows
MaxRows == 3
ExtraRows == 1

\* the table of n rows that runs through RowCycle from start on, with an
\* empty row at the positions in empties
Table(n, start, empties) ==
    [i \in 1..n |->
        IF i \in empties THEN EmptyRow
        ELSE RowCycle[((i + start - 2) % Len(RowCycle)) + 1]]

ShortTables ==
    {Table(n, start, {}) : n \in 0..MaxRows, start \in 1..Len(RowCycle)}
    \cup {Table(n, 1, empties) : n \in 1..MaxRows, empties \in {{1}, {2}, {1, 3}}}

LongTables ==
    {Table(LastQuestion + k, start, {}) :
        k \in 0..ExtraRows, start \in 1..Len(RowCycle)}

\* the table without one of its columns
WithoutColumn(table, column) ==
    [i \in 1..Len(table) |-> [c \in DOMAIN table[i] \ {column} |-> table[i][c]]]

\* tables that load_ground_truth cannot read: one unreadable row in a table
\* with at most one empty row, or a column missing from the header
BadTables ==
    UNION {{[Table(n, 1, empties) EXCEPT ![p] = bad] :
                p \in 1..n, empties \in {{}, {1}}, bad \in BadRows} :
            n \in 1..MaxRows}
    \cup {WithoutColumn(Table(n, 1, empties), column) :
            n \in 1..MaxRows, empties \in {{}, {1}},
            column \in {"Rubric", "ExpertTime"}}

SecSources ==
    << [url |-> "https://www.SEC.gov/filing", name |-> "10-K"],
       [url |-> "https://example.com", name |-> "News"] >>

NewsSources == << [url |-> "https://example.com", name |-> "News"] >>

\* one source, a filing
FilingOnly == << [url |-> "https://www.sec.gov/cgi-bin/browse-edgar", name |-> "EDGAR"] >>

\* two sources, neither a filing nor an investor-relations page, one without
\* a url
SecondarySources ==
    << [name |-> "Press release"], [url |-> "https://example.com", name |-> "News"] >>

IrSources ==
    << [url |-> "https://example.com", name |-> "News"],
       [url |-> "https://IR.example.com/q3", name |-> "Q3 results"] >>

InvestorSources ==
    << [url |-> "https://example.com/Investors/", name |-> "Investor relations"],
       [url |-> "https://example.com", name |-> "News"] >>

\* answers with and without the status markers, an empty one, one without
\* sources
MarkerItems ==
    { [question_number |-> 1, question |-> "Q1",
       answer |-> "FINAL ANSWER: Revenue grew 44.7%, income from operations rose, debt 1250",
       sources |-> SecSources],
      [question_number |-> 1, question |-> "Q1",
       answer |-> "final answer: revenue grew 44%",
       sources |-> NewsSources],
      [question_number |-> 2, question |-> "Q2", answer |-> " \n"],
      [question_number |-> 2, question |-> "Q2",
       answer |-> "I think operations rose from 1,250",
       sources |-> <<>>],
      [question_number |-> 3, question |-> "Q3",
       answer |-> "FINAL ANSWER: 44%",
       sources |-> NewsSources] }

\* answers that meet a growing part of a rubric, each with sources of another
\* kind
PartialItems ==
    { [question_number |-> 1, question |-> "Q1",
       answer |-> "FINAL ANSWER: Revenue grew 44.7%",
       sources |-> FilingOnly],
      [question_number |-> 1, question |-> "Q1",
       answer |-> "FINAL ANSWER: Revenue grew 44.7%, income rose",
       sources |-> SecondarySources],
      [question_number |-> 1, question |-> "Q1",
       answer |-> "Revenue grew 44.7%, income rose, debt 1,250, cash flow positive",
       sources |-> IrSources],
      [question_number |-> 3, question |-> "Q3",
       answer |-> "  ",
       sources |-> InvestorSources] }

AnswerItems == MarkerItems \cup PartialItems

\* answer stores of up to MaxStore records, all of one kind
MaxStore == 3

Stores ==
    UNION {[1..n -> items] : n \in 0..MaxStore, items \in {MarkerItems, PartialItems}}

LongStores == UNION {[1..n -> AnswerItems] : n \in 0..1}

Init ==
    /\ pc = "start"
    /\ \/ csv_rows \in ShortTables /\ answers_list \in Stores
       \/ csv_rows \in LongTables \cup BadTables /\ answers_list \in LongStores
    /\ ground_truth = <<>> /\ answers = <<>>
    /\ q_num = 0 /\ graded_results = <<>> /\ g = IdleLocals
    /\ output = [written |-> FALSE]
    /\ raised = NoError
    /\ search = IdleSearch
    /\ criterion_text = "" /\ answer = "" /\ cc_result = <<FALSE, "">>
    /\ error_msg = "" /\ is_token_limit = FALSE /\ script = IdleScript

(***************************************************************************)
(* main(), one action per step.                                            *)
(***************************************************************************)
\* line 271: load_ground_truth returns the mapping, or raises an exception
\* that main does not catch and that ends the run
LoadGroundTruth ==
    /\ pc = "start"
    /\ LET outcome == load_ground_truth(csv_rows)
       IN  IF outcome.raised = NoError
           THEN /\ ground_truth' = outcome.value
                /\ pc' = "load_answers"
                /\ UNCHANGED raised
           ELSE /\ raised' = outcome.raised
                /\ pc' = "aborted"
                /\ UNCHANGED ground_truth
    /\ UNCHANGED <<csv_rows, answers_list, answers, q_num, graded_results, g, output>>
    /\ UNCHANGED <<search, ccVars, tlVars, script>>

\* line 275, up to the return statement of load_answers
LoadAnswers ==
    /\ pc = "load_answers"
    /\ answers' = load_answers(answers_list)
    /\ pc' = "loaded"
    /\ UNCHANGED <<csv_rows, answers_list, ground_truth, q_num, graded_results, g, output>>
    /\ UNCHANGED <<raised, search, ccVars, tlVars, script>>

\* lines 276-279: load_answers has returned, and its local answers_list is
\* gone; main starts the list of results
StartGrading ==
    /\ pc = "loaded"
    /\ answers_list' = <<>>
    /\ graded_results' = <<>>
    /\ pc' = "loop"
    /\ UNCHANGED <<csv_rows, ground_truth, answers, q_num, g, output>>
    /\ UNCHANGED <<raised, search, ccVars, tlVars, script>>

\* the numbers of range(1, 51) after q_num that are in ground_truth
Remaining == {q \in (q_num + 1)..LastQuestion : q \in DOMAIN ground_truth}

\* lines 281-283 and 119-121: the loop moves on to the next number that is in
\* ground_truth and calls grade_answer, which binds its arguments
LoopNext ==
    /\ pc = "loop"
    /\ Remaining # {}
    /\ LET q == CHOOSE x \in Remaining : \A y \in Remaining : x <= y
           answer_data == IF q \in DOMAIN answers THEN answers[q]
                          ELSE [answer |-> "", sources |-> <<>>]
       IN  /\ q_num' = q
           /\ g' = [IdleLocals EXCEPT
                        !.answer_text = Get(answer_data, "answer", ""),
                        !.sources = Get(answer_data, "sources", <<>>),
                        !.rubric = ground_truth[q].rubric]
    /\ pc' = "status"
    /\ UNCHANGED <<csv_rows, answers_list, ground_truth, answers, graded_results, output>>
    /\ UNCHANGED <<raised, search, ccVars, tlVars, script>>

\* lines 123-129
GradeStatus ==
    /\ pc = "status"
    /\ g' = [g EXCEPT !.status = StatusOf(g.answer_text)]
    /\ pc' = "correctness"
    /\ UNCHANGED <<csv_rows, answers_list, ground_truth, answers, q_num, graded_results, output>>
    /\ UNCHANGED <<raised, search, ccVars, tlVars, script>>

\* lines 135-160: the locals after the loop over the correctness criteria,
\* results being their rubric_results entries
WithCorrectness(locals, results) ==
    [locals EXCEPT
        !.rubric_results = results,
        !.met_count = MetCount(results),
        !.correctness_score =
            CorrectnessScore(MetCount(results), Len(results), locals.status)]

\* lines 162-182: the locals after the loop over the contradiction criteria
WithContradictions(locals, results) ==
    [locals EXCEPT
        !.rubric_results = locals.rubric_results \o results,
        !.has_contradictions = HasContradictions(results, locals.status)]

\* lines 131-160
GradeCorrectness ==
    /\ pc = "correctness"
    /\ g' = WithCorrectness(g, RubricResults("correctness",
                                             CriteriaOf(g.rubric, "correctness"),
                                             g.answer_text, ground_truth[q_num].answer))
    /\ pc' = "contradictions"
    /\ UNCHANGED <<csv_rows, answers_list, ground_truth, answers, q_num, graded_results, output>>
    /\ UNCHANGED <<raised, search, ccVars, tlVars, script>>

\* lines 162-182
GradeContradictions ==
    /\ pc = "contradictions"
    /\ g' = WithContradictions(g, RubricResults("contradiction",
                                                CriteriaOf(g.rubric, "contradiction"),
                                                g.answer_text, ground_truth[q_num].answer))
    /\ pc' = "penalty"
    /\ UNCHANGED <<csv_rows, answers_list, ground_truth, answers, q_num, graded_results, output>>
    /\ UNCHANGED <<raised, search, ccVars, tlVars, script>>

\* lines 184-186
Penalize ==
    /\ pc = "penalty"
    /\ g' = [g EXCEPT !.correctness_score = Penalized(g.correctness_score, g.has_contradictions)]
    /\ pc' = "sources"
    /\ UNCHANGED <<csv_rows, answers_list, ground_truth, answers, q_num, graded_results, output>>
    /\ UNCHANGED <<raised, search, ccVars, tlVars, script>>

\* lines 188-198
GradeSources ==
    /\ pc = "sources"
    /\ g' = [g EXCEPT !.sources_quality = SourcesQuality(g.sources)]
    /\ pc' = "final"
    /\ UNCHANGED <<csv_rows, answers_list, ground_truth, answers, q_num, graded_results, output>>
    /\ UNCHANGED <<raised, search, ccVars, tlVars, script>>

\* lines 200-228 and 285: grade_answer returns its result, main appends it
GradeFinish ==
    /\ pc = "final"
    /\ LET gt == ground_truth[q_num]
           n_criteria == Len(CriteriaOf(g.rubric, "correctness"))
           result ==
               [question_num |-> q_num,
                question_type |-> gt.question_type,
                difficulty |-> categorize_difficulty(gt.question_type, gt.expert_time),
                expert_time_mins |-> gt.expert_time,
                status |-> g.status,
                correctness_score |-> Round1(g.correctness_score),
                has_contradictions |-> g.has_contradictions,
                sources_quality |-> g.sources_quality,
                rubric_results |-> g.rubric_results,
                final_score |-> Round1(FinalScore(g.status, g.correctness_score)),
                comments |-> Comments(g.status, g.met_count, n_criteria,
                                      g.has_contradictions, g.sources_quality)]
       IN  graded_results' = Append(graded_results, result)
    /\ pc' = "loop"
    /\ UNCHANGED <<csv_rows, answers_list, ground_truth, answers, q_num, g, output>>
    /\ UNCHANGED <<raised, search, ccVars, tlVars, script>>

\* lines 288-295: the loop is over; the summary is computed and put in the
\* report with the results
CalculateSummary ==
    /\ pc = "loop"
    /\ Remaining = {}
    /\ \E summary \in calculate_summary(graded_results) :
           output' = [written |-> FALSE, questions |-> graded_results, summary |-> summary]
    /\ pc' = "save"
    /\ UNCHANGED <<csv_rows, answers_list, ground_truth, answers, q_num, graded_results, g>>
    /\ UNCHANGED <<raised, search, ccVars, tlVars, script>>

\* lines 297-299
SaveResults ==
    /\ pc = "save"
    /\ output' = [output EXCEPT !.written = TRUE]
    /\ pc' = "done"
    /\ UNCHANGED <<csv_rows, answers_list, ground_truth, answers, q_num, graded_results, g>>
    /\ UNCHANGED <<raised, search, ccVars, tlVars, script>>

Next ==
    \/ LoadGroundTruth
    \/ LoadAnswers
    \/ StartGrading
    \/ LoopNext
    \/ GradeStatus
    \/ GradeCorrectness
    \/ GradeContradictions
    \/ Penalize
    \/ GradeSources
    \/ GradeFinish
    \/ CalculateSummary
    \/ SaveResults

Spec == Init /\ [][Next]_vars

(***************************************************************************)
(* The EDGAR search client (tools.py): one call of EDGARSearch.search      *)
(* under the retry_on_429 decorator.                                       *)
(***************************************************************************)
\* max_tries=8
MaxTries == 8

\* base=2
BackoffBase == 2

\* factor=3
BackoffFactor == 3

SEC_API_URL == "https://api.sec-api.io/full-text-search"

\* isinstance(exception, aiohttp.ClientResponseError): the class itself and
\* its subclass ContentTypeError
IsClientResponseError(e) == e.class \in {"ClientResponseError", "ContentTypeError"}

\* str(exception): status, message and url of a ClientResponseError, the
\* message of any other exception
StrOf(e) ==
    IF IsClientResponseError(e)
    THEN ToString(e.status) \o ", message='" \o e.message \o "', url=URL('"
           \o SEC_API_URL \o "')"
    ELSE e.message

\* lines 9-15
is_429(e) == (IsClientResponseError(e) /\ e.status = 429) \/ Contains(StrOf(e), "429")

\* line 27: giveup
GiveUp(e) == ~is_429(e)

\* the exceptions one attempt can end with: raise_for_status (line 120),
\* response.json() (line 121) and the connection (line 115)
Failures ==
    { [class |-> "ClientResponseError", status |-> 429, message |-> "Too Many Requests"],
      [class |-> "ClientResponseError", status |-> 500, message |-> "Internal Server Error"],
      [class |-> "ClientResponseError", status |-> 503,
       message |-> "Upstream answered 429"],
      [class |-> "ContentTypeError", status |-> 200,
       message |-> "Attempt to decode JSON with unexpected mimetype: text/html"],
      [class |-> "ClientConnectorError", status |-> 0,
       message |-> "Cannot connect to host api.sec-api.io:443"],
      [class |-> "ClientPayloadError", status |-> 0,
       message |-> "Response payload is not completed: 1429 of 2000 bytes"] }

\* responses of up to MaxFilings filings
MaxFilings == 2

FilingCycle == << [formType |-> "10-K"], [formType |-> "10-Q"], [formType |-> "8-K"] >>

\* the JSON bodies of a successful response, one without the filings key
Responses ==
    {[filings |-> [i \in 1..n |-> FilingCycle[((i - 1) % Len(FilingCycle)) + 1]]] :
        n \in 0..MaxFilings}
    \cup {[total |-> 0]}

TopNResults == {0, 1, 10}

\* seq[:n]
Take(seq, n) ==
    LET len == IF n >= 0 THEN (IF n < Len(seq) THEN n ELSE Len(seq))
               ELSE (IF Len(seq) + n > 0 THEN Len(seq) + n ELSE 0)
    IN  SubSeq(seq, 1, len)

InitSearch ==
    /\ pc = "search"
    /\ \E n \in TopNResults : search = [IdleSearch EXCEPT !.top_n_results = n]
    /\ csv_rows = <<>> /\ answers_list = <<>>
    /\ ground_truth = <<>> /\ answers = <<>>
    /\ q_num = 0 /\ graded_results = <<>> /\ g = IdleLocals
    /\ output = [written |-> FALSE]
    /\ raised = NoError
    /\ criterion_text = "" /\ answer = "" /\ cc_result = <<FALSE, "">>
    /\ error_msg = "" /\ is_token_limit = FALSE /\ script = IdleScript

\* lines 29-30 and 114-123 under backoff.on_exception (lines 20-28): one
\* attempt.  The request is issued; its result is returned, or its exception
\* propagates (it is not a ClientResponseError, giveup holds, or it was the
\* last of max_tries attempts), or the loop goes on to wait.
SearchAttempt ==
    /\ pc = "search"
    /\ LET tries == search.tries + 1
       IN  \/ \E response \in Responses :
                /\ search' = [search EXCEPT
                                 !.tries = tries,
                                 !.result = Take(Get(response, "filings", <<>>),
                                                 search.top_n_results)]
                /\ pc' = "search_returned"
           \/ \E e \in Failures :
                IF ~IsClientResponseError(e) \/ GiveUp(e) \/ tries = MaxTries
                THEN /\ search' = [search EXCEPT !.tries = tries, !.e = e]
                     /\ pc' = "search_raised"
                ELSE /\ search' = [search EXCEPT
                                      !.tries = tries, !.e = e,
                                      !.wait_cap = BackoffFactor * BackoffBase ^ (tries - 1)]
                     /\ pc' = "backoff"
    /\ UNCHANGED <<mainVars, ccVars, tlVars, script>>

\* the sleep of backoff.expo with full jitter, at most wait_cap seconds, is
\* over
SearchBackoff ==
    /\ pc = "backoff"
    /\ pc' = "search"
    /\ UNCHANGED <<search, mainVars, ccVars, tlVars, script>>

NextSearch == SearchAttempt \/ SearchBackoff

SpecSearch == InitSearch /\ [][NextSearch]_vars

(***************************************************************************)
(* Properties of a grading run (specification Spec).                       *)
(***************************************************************************)
\* every character of t is a whitespace character (the empty text included)
OnlyWhitespace(t) == \A i \in 1..Len(t) : Ch(t, i) \in Whitespace

\* the answer text submitted for question q, "" when the store has none
SubmittedText(q) == IF q \in DOMAIN answers THEN answers[q].answer ELSE ""

ReportedNumbers == {output.questions[i].question_num : i \in 1..Len(output.questions)}

\* C1: the report of a finished run holds exactly one GradingResult for each
\* question number of the ground truth, whatever the number of questions,
\* and no result for any other number.
C1_EveryQuestionReported ==
    pc = "done" =>
        /\ ReportedNumbers = DOMAIN ground_truth
        /\ \A q \in DOMAIN ground_truth :
              Cardinality({i \in 1..Len(output.questions) :
                              output.questions[i].question_num = q}) = 1

\* the status the specification gives an answer text, with the marker
\* "FINAL ANSWER:" recognised in any letter case
StatusAnyCase(t) ==
    IF OnlyWhitespace(t) THEN "Skipped"
    ELSE IF Contains(Lower(t), "final answer:") THEN "Answered"
    ELSE "Attempted"

\* C2: the status of an answer is Skipped iff its text is empty or
\* whitespace-only, otherwise Answered iff the text contains "FINAL ANSWER:"
\* in any letter case, otherwise Attempted.
C2_StatusFromTextAnyCase ==
    pc \in {"correctness", "contradictions", "penalty", "sources", "final"} =>
        g.status = StatusAnyCase(g.answer_text)

InPercentRange(tenths) == 0 <= tenths /\ tenths <= 1000

\* C3: correctness_score and final_score of every GradingResult lie in
\* [0, 100], and so do average_score and every by_difficulty and
\* by_question_type mean of the summary.
C3_ScoresWithinRange ==
    /\ \A i \in 1..Len(graded_results) :
          /\ InPercentRange(graded_results[i].correctness_score)
          /\ InPercentRange(graded_results[i].final_score)
    /\ pc \in {"save", "done"} =>
          /\ InPercentRange(output.summary.average_score)
          /\ \A d \in DOMAIN output.summary.by_difficulty :
                InPercentRange(output.summary.by_difficulty[d])
          /\ \A t \in DOMAIN output.summary.by_question_type :
                InPercentRange(output.summary.by_question_type[t])

\* C3 witness: a finished report with a positive score, a contradicted
\* answer whose score the penalty would take below 0, and a positive average.
C3_Witness ==
    /\ pc = "done"
    /\ \E i \in 1..Len(output.questions) : output.questions[i].final_score > 0
    /\ \E i \in 1..Len(output.questions) :
          /\ output.questions[i].has_contradictions
          /\ output.questions[i].correctness_score = 0
    /\ output.summary.average_score > 0

\* C4: total_questions is the number N of ground-truth questions and skipped
\* is N minus the number of ground-truth questions whose submitted answer
\* text is not blank.
C4_TotalAndSkipped ==
    pc = "done" =>
        LET N == Len(ground_truth)
            nonblank == {q \in DOMAIN ground_truth : ~OnlyWhitespace(SubmittedText(q))}
        IN  /\ output.summary.total_questions = N
            /\ output.summary.skipped = N - Cardinality(nonblank)

\* C5: after load_answers there is exactly one entry for each question
\* number of the list, and it holds the answer and the sources of the last
\* object with that number.
C5_LastWriteWins ==
    pc = "loaded" =>
        /\ DOMAIN answers = {answers_list[i].question_number : i \in 1..Len(answers_list)}
        /\ \A i \in 1..Len(answers_list) :
              (\A j \in (i + 1)..Len(answers_list) :
                    answers_list[j].question_number # answers_list[i].question_number)
              => LET entry == answers[answers_list[i].question_number]
                 IN  /\ entry.answer = Get(answers_list[i], "answer", "")
                     /\ entry.sources = Get(answers_list[i], "sources", <<>>)

\* C5 witness: a loaded store in which two objects share a question number
\* and differ in answer and sources, next to an object with another number.
C5_Witness ==
    /\ pc = "loaded"
    /\ \E i, j \in 1..Len(answers_list) :
          /\ i < j
          /\ answers_list[i].question_number = answers_list[j].question_number
          /\ Get(answers_list[i], "answer", "") # Get(answers_list[j], "answer", "")
          /\ Get(answers_list[i], "sources", <<>>) # Get(answers_list[j], "sources", <<>>)
    /\ Cardinality(DOMAIN answers) > 1

\* C10: the correctness score before the contradiction penalty is
\* 100 * met / n over the n > 0 correctness criteria, met of which
\* check_criterion reports met; with no correctness criterion it is 0 for a
\* Skipped answer and 50 otherwise.  Contradiction criteria are not counted.
C10_CorrectnessScore ==
    pc = "contradictions" =>
        LET cc == {i \in 1..Len(g.rubric) : g.rubric[i].operator = "correctness"}
            met == {i \in cc : check_criterion(g.rubric[i].criteria, g.answer_text,
                                               ground_truth[q_num].answer)[1]}
            score == g.correctness_score
        IN  IF cc # {}
            THEN score[1] * Cardinality(cc) = 100 * Cardinality(met) * score[2]
            ELSE score[1] = (IF OnlyWhitespace(g.answer_text) THEN 0 ELSE 50 * score[2])

\* C10 witness: one of two correctness criteria is met and the rubric also
\* has a contradiction criterion, which is not met.
C10_Witness ==
    /\ pc = "contradictions"
    /\ g.correctness_score = <<100, 2>>
    /\ \E i \in 1..Len(g.rubric) :
          /\ g.rubric[i].operator = "contradiction"
          /\ ~check_criterion(g.rubric[i].criteria, g.answer_text, "")[1]

\* the entries of rubric_results of the given type
EntriesOf(results, type) == SelectSeq(results, LAMBDA e : e.type = type)

C11_AttemptedNotFlagged ==
    /\ pc = "penalty"
    /\ g.status = "Attempted"
    /\ ~g.has_contradictions
    /\ \E k \in 1..Len(g.rubric_results) :
          g.rubric_results[k].type = "contradiction" /\ ~g.rubric_results[k].met

\* an Answered answer that meets no correctness criterion is not flagged
C11_CorrectnessNotFlagged ==
    /\ pc = "penalty"
    /\ g.status = "Answered"
    /\ ~g.has_contradictions
    /\ g.met_count = 0 /\ Len(EntriesOf(g.rubric_results, "correctness")) > 0

\* C12: the penalty step lowers the correctness score by 20, floored at 0,
\* when has_contradictions is true and the score is strictly below 30, and
\* leaves it unchanged when has_contradictions is false or the score is 30
\* or more.
C12_ContradictionPenalty ==
    [][pc = "penalty" =>
          LET before == g.correctness_score
              after == g'.correctness_score
              lowered == before[1] - 20 * before[2]
          IN  IF g.has_contradictions /\ before[1] < 30 * before[2]
              THEN after[1] * before[2] = (IF lowered > 0 THEN lowered ELSE 0) * after[2]
              ELSE after = before]_vars

\* C12 witness: a contradicted answer that met 6 of 30 correctness criteria,
\* a score of 20, has the score 0 after the penalty.
C12_Witness ==
    /\ pc = "sources"
    /\ g.has_contradictions
    /\ 100 * g.met_count = 20 * Len(EntriesOf(g.rubric_results, "correctness"))
    /\ g.correctness_score[1] = 0

\* a contradicted answer with a score of exactly 30 keeps it
C12_ThirtyUnchanged ==
    /\ pc = "sources"
    /\ g.has_contradictions
    /\ g.correctness_score[1] = 30 * g.correctness_score[2]

\* a contradicted answer with a score of 23.3 is left with 3.3
C12_LoweredAboveFloor ==
    /\ pc = "sources"
    /\ g.has_contradictions
    /\ 30 * g.correctness_score[1] = 100 * g.correctness_score[2]

\* C13 as stated: final_score is 0 when the status is Skipped, exactly half
\* of correctness_score when it is Attempted, and correctness_score (after
\* the penalty) when it is Answered.
C13_FinalScoreAsStated ==
    \A i \in 1..Len(graded_results) :
        LET r == graded_results[i]
        IN  /\ r.status = "Skipped" => r.final_score = 0
            /\ r.status = "Attempted" => 2 * r.final_score = r.correctness_score
            /\ r.status = "Answered" => r.final_score = r.correctness_score

\* tenths is the rational s[1] / s[2] rounded to one decimal
IsRounded(tenths, s) ==
    /\ 2 * (tenths * s[2] - 10 * s[1]) <= s[2]
    /\ 2 * (10 * s[1] - tenths * s[2]) <= s[2]

\* C13 amended: final_score is 0 when the status is Skipped; when it is
\* Attempted it is half of the correctness score as computed, before that
\* score is rounded, itself rounded to one decimal (so 33.3 goes with 16.7);
\* when it is Answered it is the correctness score after the penalty,
\* rounded to one decimal, and equals the correctness_score field.
C13_FinalScore ==
    (pc = "loop" /\ graded_results # <<>>) =>
        LET r == graded_results[Len(graded_results)]
            score == g.correctness_score
        IN  /\ IsRounded(r.correctness_score, score)
            /\ r.status = "Skipped" => r.final_score = 0
            /\ r.status = "Attempted" =>
                  IsRounded(r.final_score, <<score[1], 2 * score[2]>>)
            /\ r.status = "Answered" =>
                  /\ IsRounded(r.final_score, score)
                  /\ r.final_score = r.correctness_score

\* C13 witness: an Attempted answer that met 3 of 4 correctness criteria has
\* the final score 37.5.
C13_Witness ==
    /\ pc = "loop" /\ graded_results # <<>>
    /\ LET r == graded_results[Len(graded_results)]
       IN  /\ r.status = "Attempted"
           /\ g.met_count = 3 /\ Len(EntriesOf(r.rubric_results, "correctness")) = 4
           /\ r.correctness_score = 750
           /\ r.final_score = 375

\* the url of a source names a filing or an investor-relations page
NamesPrimary(source) ==
    \E marker \in {"sec.gov", "investor", "ir."} :
        "url" \in DOMAIN source /\ Contains(Lower(source.url), marker)

\* the tier the specification gives a source list
TierOf(sources) ==
    IF sources = <<>> THEN "Poor"
    ELSE IF Len(sources) >= 2 /\ \E i \in 1..Len(sources) : NamesPrimary(sources[i])
    THEN "Good"
    ELSE "Acceptable"

\* the sources submitted for question q, none when the store has no entry
SubmittedSources(q) == IF q \in DOMAIN answers THEN answers[q].sources ELSE <<>>

\* C14: sources_quality is Poor for an empty source list, Good for at least
\* 2 sources one of which has 'sec.gov', 'investor' or 'ir.' in its url in
\* any letter case, and Acceptable for every other non-empty list; it
\* depends on the sources only, not on the answer text or the status.
C14_SourcesQuality ==
    \A i \in 1..Len(graded_results) :
        graded_results[i].sources_quality
            = TierOf(SubmittedSources(graded_results[i].question_num))

\* C14 witness: a report with a Skipped question whose two sources make the
\* tier Good.
C14_Witness ==
    /\ pc = "done"
    /\ \E i \in 1..Len(output.questions) :
          /\ output.questions[i].status = "Skipped"
          /\ output.questions[i].sources_quality = "Good"

\* a single source on sec.gov gives Acceptable
C14_SingleFiling ==
    /\ pc = "done"
    /\ \E i \in 1..Len(output.questions) :
          LET sources == SubmittedSources(output.questions[i].question_num)
          IN  /\ Len(sources) = 1 /\ NamesPrimary(sources[1])
              /\ output.questions[i].sources_quality = "Acceptable"

\* the tier the specification gives an expert time
DifficultyOf(minutes) ==
    CASE minutes <= 5 -> "Easy"
      [] minutes \in 6..15 -> "Medium"
      [] minutes \in 16..30 -> "Hard"
      [] minutes > 30 -> "Very Hard"

\* C15: categorize_difficulty gives Easy up to 5 minutes, Medium from 6 to
\* 15, Hard from 16 to 30 and Very Hard above 30, whatever the question
\* type; every GradingResult carries the tier of its expert time.
C15_Difficulty ==
    /\ \A i \in 1..Len(graded_results) :
          graded_results[i].difficulty = DifficultyOf(graded_results[i].expert_time_mins)
    /\ \A q \in DOMAIN ground_truth :
          \A minutes \in {0, 4, 5, 6, 14, 15, 16, 29, 30, 31, 32, 600} :
              categorize_difficulty(ground_truth[q].question_type, minutes)
                  = DifficultyOf(minutes)

\* C15 witness: a report with questions of 5, 15, 30 and 31 minutes, tagged
\* Easy, Medium, Hard and Very Hard.
C15_Witness ==
    /\ pc = "done"
    /\ \A pair \in {<<5, "Easy">>, <<15, "Medium">>, <<30, "Hard">>, <<31, "Very Hard">>} :
          \E i \in 1..Len(output.questions) :
              /\ output.questions[i].expert_time_mins = pair[1]
              /\ output.questions[i].difficulty = pair[2]

\* C16: a ground-truth question without an entry in the answer store is
\* graded without an error as an answer with empty text and no sources: the
\* report has a result for it with status Skipped, final_score 0 and
\* sources_quality Poor, and the summary counts it.
C16_MissingAnswerSkipped ==
    pc = "done" =>
        LET missing == DOMAIN ground_truth \ DOMAIN answers
        IN  /\ raised = NoError
            /\ \A q \in missing :
                  \E i \in 1..Len(output.questions) :
                      /\ output.questions[i].question_num = q
                      /\ output.questions[i].status = "Skipped"
                      /\ output.questions[i].final_score = 0
                      /\ output.questions[i].sources_quality = "Poor"
            /\ output.summary.total_questions = Len(output.questions)
            /\ output.summary.skipped >= Cardinality(missing)

\* the same for the question numbers of range(1, 51) only
C16_WithinLoopRange ==
    pc = "done" =>
        LET missing == (DOMAIN ground_truth \ DOMAIN answers) \cap 1..LastQuestion
        IN  /\ raised = NoError
            /\ \A q \in missing :
                  \E i \in 1..Len(output.questions) :
                      /\ output.questions[i].question_num = q
                      /\ output.questions[i].status = "Skipped"
                      /\ output.questions[i].final_score = 0
                      /\ output.questions[i].sources_quality = "Poor"
            /\ output.summary.total_questions = Len(output.questions)
            /\ output.summary.skipped >= Cardinality(missing)

\* a report with a graded answer and a question that has no entry
C16_SomeMissing ==
    /\ pc = "done"
    /\ DOMAIN ground_truth \ DOMAIN answers # {}
    /\ DOMAIN ground_truth \cap DOMAIN answers # {}

\* the final scores of the results whose field key has the value k
ScoresOf(results, key, k) == FinalScores(SelectSeq(results, LAMBDA r : r[key] = k))

ValuesOf(results, key) == {results[i][key] : i \in 1..Len(results)}

\* C17 as stated: for an empty list of results the summary has average_score
\* 0, all counts 0 and empty group mappings; otherwise average_score is the
\* mean of the final scores, and by_difficulty and by_question_type map each
\* tier and type that occurs to the mean final score of its results.
C17_SummaryMeansAsStated ==
    pc \in {"save", "done"} =>
        LET results == output.questions
            s == output.summary
        IN  IF results = <<>>
            THEN /\ s.average_score = 0
                 /\ s.total_questions = 0 /\ s.answered = 0
                 /\ s.attempted = 0 /\ s.skipped = 0
                 /\ DOMAIN s.by_difficulty = {} /\ DOMAIN s.by_question_type = {}
            ELSE /\ s.average_score * Len(results) = SumOf(FinalScores(results))
                 /\ DOMAIN s.by_difficulty = ValuesOf(results, "difficulty")
                 /\ DOMAIN s.by_question_type = ValuesOf(results, "question_type")
                 /\ \A d \in DOMAIN s.by_difficulty :
                       s.by_difficulty[d] * Len(ScoresOf(results, "difficulty", d))
                           = SumOf(ScoresOf(results, "difficulty", d))
                 /\ \A t \in DOMAIN s.by_question_type :
                       s.by_question_type[t] * Len(ScoresOf(results, "question_type", t))
                           = SumOf(ScoresOf(results, "question_type", t))

\* tenths is the mean of the non-empty list scores rounded to one decimal
IsRoundedMean(tenths, scores) ==
    /\ 2 * (tenths * Len(scores) - SumOf(scores)) <= Len(scores)
    /\ 2 * (SumOf(scores) - tenths * Len(scores)) <= Len(scores)

\* C17 amended: the same, each mean being rounded to one decimal.
C17_SummaryMeans ==
    pc \in {"save", "done"} =>
        LET results == output.questions
            s == output.summary
        IN  IF results = <<>>
            THEN /\ s.average_score = 0
                 /\ s.total_questions = 0 /\ s.answered = 0
                 /\ s.attempted = 0 /\ s.skipped = 0
                 /\ DOMAIN s.by_difficulty = {} /\ DOMAIN s.by_question_type = {}
            ELSE /\ IsRoundedMean(s.average_score, FinalScores(results))
                 /\ DOMAIN s.by_difficulty = ValuesOf(results, "difficulty")
                 /\ DOMAIN s.by_question_type = ValuesOf(results, "question_type")
                 /\ \A d \in DOMAIN s.by_difficulty :
                       IsRoundedMean(s.by_difficulty[d], ScoresOf(results, "difficulty", d))
                 /\ \A t \in DOMAIN s.by_question_type :
                       IsRoundedMean(s.by_question_type[t],
                                     ScoresOf(results, "question_type", t))

\* C17 witness: a summary of three results in two difficulty tiers and two
\* question types whose mean final score is not a whole number of tenths.
C17_Witness ==
    /\ pc = "done"
    /\ Len(output.questions) = 3
    /\ SumOf(FinalScores(output.questions)) % 3 # 0
    /\ Cardinality(DOMAIN output.summary.by_difficulty) >= 2
    /\ Cardinality(DOMAIN output.summary.by_question_type) = 2

\* the summary of an empty list of results
C17_EmptyList ==
    /\ pc = "done"
    /\ output.questions = <<>>
    /\ output.summary.average_score = 0
    /\ DOMAIN output.summary.by_difficulty = {}

\* C18: load_ground_truth gives the k-th row with a non-empty Question
\* field, in row order, the question number k; rows with an empty Question
\* field get no number and do not advance the counter, so the keys of the
\* mapping are exactly 1..N, N being the number of non-empty rows.
C18_PositionalNumbering ==
    pc = "load_answers" =>
        LET nonempty == {i \in 1..Len(csv_rows) : csv_rows[i].Question # ""}
        IN  /\ DOMAIN ground_truth = 1..Cardinality(nonempty)
            /\ \A i \in nonempty :
                  LET k == Cardinality({j \in nonempty : j <= i})
                  IN  /\ ground_truth[k].question = csv_rows[i].Question
                      /\ ground_truth[k].answer = csv_rows[i].Answer
                      /\ ground_truth[k].question_type = csv_rows[i].QuestionType

\* C18 witness: a loaded table whose first row is empty and whose second and
\* third rows became the questions 1 and 2.
C18_Witness ==
    /\ pc = "load_answers"
    /\ Len(csv_rows) = 3
    /\ csv_rows[1].Question = ""
    /\ DOMAIN ground_truth = {1, 2}
    /\ ground_truth[1].question = csv_rows[2].Question
    /\ ground_truth[2].question = csv_rows[3].Question
    /\ ground_truth[1].question # ground_truth[2].question

\* the first row that load_ground_truth cannot read
OffendingRow ==
    CHOOSE i \in 1..Len(csv_rows) :
        /\ RowError(csv_rows[i]) # NoError
        /\ \A j \in 1..(i - 1) : RowError(csv_rows[j]) = NoError

\* C19: when a row has a malformed rubric or a required column is missing,
\* load_ground_truth ends in an error that aborts the run: no mapping is
\* returned, nothing is graded or written, and the error shown to the
\* operator identifies the offending row, by its question or its number.
C19_LoadErrorIdentifiesRow ==
    pc = "aborted" =>
        /\ raised # NoError
        /\ ground_truth = <<>> /\ graded_results = <<>>
        /\ output = [written |-> FALSE]
        /\ \/ Contains(raised.shown, csv_rows[OffendingRow].Question)
           \/ Contains(raised.shown, "row " \o ToString(OffendingRow))
           \/ Contains(raised.shown, "line " \o ToString(OffendingRow + 1))

\* the run is aborted, and nothing is returned, graded or written
C19_RunAborted ==
    (pc # "start" /\ \E i \in 1..Len(csv_rows) : RowError(csv_rows[i]) # NoError) =>
        /\ pc = "aborted"
        /\ raised # NoError
        /\ ground_truth = <<>> /\ graded_results = <<>>
        /\ output = [written |-> FALSE]

(***************************************************************************)
(* Properties of check_criterion (specification SpecCriterion).            *)
(***************************************************************************)
StartsWith(t, prefix) == Len(t) >= Len(prefix) /\ SubSeq(t, 1, Len(prefix)) = prefix

EndsWith(t, suffix) ==
    Len(t) >= Len(suffix) /\ SubSeq(t, Len(t) - Len(suffix) + 1, Len(t)) = suffix

\* which check the evidence of a result comes from
IsNumericEvidence(e) == StartsWith(e, "Found required numbers: ")
IsKeyPhraseEvidence(e) == EndsWith(e, " key concepts from criterion")
IsOverlapEvidence(e) == StartsWith(e, "Strong word overlap (")

NotMet == <<FALSE, "Criterion not clearly met in answer">>

\* every numeric token of criterion c occurs in answer a once the commas are
\* removed from both
TokensOccur(c, a) ==
    \A n \in 1..Len(FindNumbers(c)) :
        Contains(RemoveChar(a, ","), RemoveChar(FindNumbers(c)[n], ","))

NumericHolds(c, a) == FindNumbers(c) # <<>> /\ TokensOccur(c, a)

\* the number of key words of phrase p that occur in answer a
FoundIn(p, a) ==
    Cardinality({k \in 1..Len(KeyWords(p)) : Contains(Lower(a), KeyWords(p)[k])})

\* the number of phrases of criterion c that answer a covers, a phrase
\* without key words counting as covered iff emptyCounts
CoveredPhrases(c, a, emptyCounts) ==
    Cardinality({i \in 1..Len(KeyPhrases(c)) :
        LET p == KeyPhrases(c)[i]
        IN  /\ 2 * FoundIn(p, a) >= Len(KeyWords(p))
            /\ emptyCounts \/ KeyWords(p) # <<>>})

\* the word tokens of t longer than 3 characters, lower-cased: the maximal
\* runs of word characters, found from their first characters
WordSet(t) ==
    LET starts == {i \in 1..Len(t) :
                      /\ Ch(t, i) \in WordChars
                      /\ i = 1 \/ Ch(t, i - 1) \notin WordChars}
        runs == {SubSeq(t, i, SpanEnd(t, i, WordChars, TRUE) - 1) : i \in starts}
    IN  {Lower(w) : w \in {x \in runs : Len(x) > 3}}

\* answer a contains no key word of criterion c and shares no word token
\* longer than 3 characters with it
NoSharedWords(c, a) ==
    /\ \A i \in 1..Len(KeyPhrases(c)) : FoundIn(KeyPhrases(c)[i], a) = 0
    /\ WordSet(c) \cap WordSet(a) = {}

\* C6: for every criterion, a call with an empty or whitespace-only answer
\* returns (False, "No answer provided").
C6_BlankAnswerNotMet ==
    (pc = "returned" /\ OnlyWhitespace(answer)) =>
        cc_result = <<FALSE, "No answer provided">>

\* C6 witness: a call with a whitespace-only (not empty) answer has returned,
\* for a criterion whose numeric tokens a heuristic could look for.
C6_Witness ==
    /\ pc = "returned"
    /\ answer # "" /\ OnlyWhitespace(answer)
    /\ FindNumbers(criterion_text) # <<>>
    /\ cc_result = <<FALSE, "No answer provided">>

C7_DifferentNumber ==
    /\ pc = "returned"
    /\ criterion_text = "Revenue grew 44.7%"
    /\ answer = "44%"
    /\ cc_result = NotMet

\* C8 as stated: when the numeric check does not succeed, the criterion is
\* met by the key-phrase check, with evidence covered/total, iff
\* covered / total >= 0.6, a phrase being covered iff at least half of its
\* significant words occur in the answer (so also when it has none).
C8_KeyPhraseAsStated ==
    (pc = "returned" /\ ~OnlyWhitespace(answer) /\ ~NumericHolds(criterion_text, answer)) =>
        LET total == Len(KeyPhrases(criterion_text))
            covered == CoveredPhrases(criterion_text, answer, TRUE)
        IN  IF total > 0 /\ 10 * covered >= 6 * total
            THEN cc_result = <<TRUE, "Found " \o ToString(covered) \o "/" \o ToString(total)
                                        \o " key concepts from criterion">>
            ELSE ~IsKeyPhraseEvidence(cc_result[2])

\* C8 amended: the same, a phrase being covered iff it has at least one
\* significant word and at least half of its significant words occur in the
\* lower-cased answer; a phrase without significant words is never covered.
C8_KeyPhrase ==
    (pc = "returned" /\ ~OnlyWhitespace(answer) /\ ~NumericHolds(criterion_text, answer)) =>
        LET total == Len(KeyPhrases(criterion_text))
            covered == CoveredPhrases(criterion_text, answer, FALSE)
        IN  IF total > 0 /\ 10 * covered >= 6 * total
            THEN cc_result = <<TRUE, "Found " \o ToString(covered) \o "/" \o ToString(total)
                                        \o " key concepts from criterion">>
            ELSE ~IsKeyPhraseEvidence(cc_result[2])

\* C8 witness: 2 of 3 phrases are covered, the third has no significant word.
C8_Witness ==
    /\ pc = "returned"
    /\ Len(KeyPhrases(criterion_text)) = 3
    /\ \E i \in 1..3 : KeyWords(KeyPhrases(criterion_text)[i]) = <<>>
    /\ cc_result = <<TRUE, "Found 2/3 key concepts from criterion">>

\* C9: when neither the numeric nor the key-phrase check succeeds, the
\* criterion is met iff its text is shorter than 100 characters, it has word
\* tokens longer than 3 characters and at least 60% of them are among those
\* of the answer; a criterion of 100 or more characters is then not met.
C9_WordOverlap ==
    (/\ pc = "returned" /\ ~OnlyWhitespace(answer)
     /\ ~IsNumericEvidence(cc_result[2]) /\ ~IsKeyPhraseEvidence(cc_result[2])) =>
        LET criterion_words == WordSet(criterion_text)
            answer_words == WordSet(answer)
            enough == /\ criterion_words # {}
                      /\ 10 * Cardinality(criterion_words \cap answer_words)
                            >= 6 * Cardinality(criterion_words)
        IN  /\ cc_result[1] <=> (Len(criterion_text) < 100 /\ enough)
            /\ cc_result[1] => IsOverlapEvidence(cc_result[2])
            /\ ~cc_result[1] => cc_result = NotMet

\* C9 witness: a criterion of 99 characters is met by the word overlap alone.
C9_Witness ==
    /\ pc = "returned"
    /\ Len(criterion_text) = 99
    /\ cc_result[1] /\ IsOverlapEvidence(cc_result[2])

\* a criterion of exactly 100 characters with the same overlap is not met
C9_LongNotMet ==
    /\ pc = "returned"
    /\ Len(criterion_text) = 100
    /\ 10 * Cardinality(WordSet(criterion_text) \cap WordSet(answer))
          >= 6 * Cardinality(WordSet(criterion_text))
    /\ WordSet(criterion_text) # {}
    /\ cc_result = NotMet

(***************************************************************************)
(* Properties of EDGARSearch.search (specification SpecSearch).            *)
(***************************************************************************)
\* C20: during one search call the request is issued at most 8 times; it is
\* re-issued only after an attempt failed with HTTP 429; a successful
\* attempt ends the call with its result; when all 8 attempts fail with 429
\* the last error propagates and there is no 9th attempt.
C20_RetryOnlyAfter429 ==
    /\ search.tries <= 8
    /\ pc \in {"backoff", "search"} /\ search.tries > 0 =>
          /\ IsClientResponseError(search.e) /\ search.e.status = 429
          /\ search.tries < 8
    /\ pc = "search_returned" => search.tries >= 1
    /\ (pc = "search_raised" /\ search.e.status = 429) => search.tries = 8

\* the request is issued at most 8 times, and an error that is retried
\* propagates at the 8th attempt
C20_AtMostEightAttempts ==
    /\ search.tries <= 8
    /\ pc \in {"backoff", "search"} => search.tries < 8
    /\ (pc = "search_raised" /\ is_429(search.e) /\ IsClientResponseError(search.e))
          => search.tries = 8

\* the 8th attempt failed with 429 and the error propagated
C20_EighthAttemptFails ==
    /\ pc = "search_raised"
    /\ search.tries = 8
    /\ search.e.status = 429

\* a retry is pending after an error response that is not a 429
C20_RetryAfterOtherStatus ==
    /\ pc = "backoff"
    /\ search.e.status # 429

\* C21: a failed attempt that is not an HTTP 429 response (an error response
\* with another status, whatever its text holds, or an exception that is no
\* HTTP error response) propagates to the caller after that attempt: no
\* retry follows it.
C21_OtherFailuresPropagate ==
    [][(pc = "search" /\ pc' # "search_returned"
          /\ ~(IsClientResponseError(search'.e) /\ search'.e.status = 429))
       => pc' = "search_raised"]_vars

\* a failed attempt is followed by a retry only when is_429 holds of a
\* ClientResponseError, and an exception of another class always propagates
C21_RetryOnlyWhenIs429 ==
    /\ pc = "backoff" => IsClientResponseError(search.e) /\ is_429(search.e)
    /\ (pc = "search_raised" /\ search.tries < MaxTries) =>
          ~IsClientResponseError(search.e) \/ ~is_429(search.e)

\* an exception that is no HTTP error response propagated at the first
\* attempt although its text holds 429
C21_OtherClassPropagated ==
    /\ pc = "search_raised"
    /\ search.tries = 1
    /\ ~IsClientResponseError(search.e)
    /\ Contains(StrOf(search.e), "429")

(***************************************************************************)
(* is_token_limit_error (utils.py) and one call of it.                     *)
(***************************************************************************)
\* lines 11-30; the two back quotes of the eleventh pattern are written as
\* apostrophes
token_limit_patterns ==
    << "token limit",
       "tokens_exceeded_error",
       "context length",
       "maximum context length",
       "token_limit_exceeded",
       "maximum tokens",
       "too many tokens",
       "prompt is too long",
       "maximum prompt length",
       "maximum number of tokens allowed",
       "input length and 'max_tokens' exceed context",
       "error code: 400",
       "error code: 413",
       "string too long",
       "413",
       "request exceeds the maximum size",
       "request_too_large",
       "too many total text bytes" >>

\* the patterns looked for in the message as it is, not lower-cased
is_token_limit_error_CaseSensitive(msg) ==
    \E i \in 1..Len(token_limit_patterns) : Contains(msg, token_limit_patterns[i])

\* line 32: any(pattern in error_msg.lower() for pattern in token_limit_patterns)
is_token_limit_error(msg) ==
    \E i \in 1..Len(token_limit_patterns) : Contains(Lower(msg), token_limit_patterns[i])

\* the upper-case letter of each lower-case letter
UpperOf == [c \in CharsOf(LowerCase) |->
               Ch(UpperCase, CHOOSE i \in 1..Len(LowerCase) : Ch(LowerCase, i) = c)]

UpperChar(c) == IF c \in DOMAIN UpperOf THEN UpperOf[c] ELSE c

RECURSIVE Upper(_)
\* str.upper(), computed on the two halves of the text
Upper(t) ==
    IF t = "" THEN ""
    ELSE IF Len(t) = 1 THEN UpperChar(t)
    ELSE Upper(SubSeq(t, 1, Len(t) \div 2)) \o Upper(SubSeq(t, Len(t) \div 2 + 1, Len(t)))

\* str.capitalize() of a lower-case text
Capitalize(t) == IF t = "" THEN "" ELSE UpperChar(Ch(t, 1)) \o SubSeq(t, 2, Len(t))

\* a text as written, in capitals, and with a capital first letter
Cases(t) == {t, Upper(t), Capitalize(t)}

\* texts that hold no pattern, some of them close to one
OtherTexts ==
    {"", "rate limit exceeded", "tokenlimit", "token-limit", "context  length",
     "error code: 401", "error code:413", "41 3", "max_tokens", "request too large",
     "connection reset by peer"}

\* messages: a pattern or another text in each of its cases, after a prefix
\* and before a suffix
ErrorMessages ==
    {prefix \o core \o suffix :
        prefix \in {"", "Error: "},
        core \in UNION {Cases(t) : t \in SeqToSet(token_limit_patterns) \cup OtherTexts},
        suffix \in {"", " (request 14139)"}}

InitTokenLimit ==
    /\ pc = "classify"
    /\ error_msg \in ErrorMessages
    /\ is_token_limit = FALSE
    /\ csv_rows = <<>> /\ answers_list = <<>>
    /\ ground_truth = <<>> /\ answers = <<>>
    /\ q_num = 0 /\ graded_results = <<>> /\ g = IdleLocals
    /\ output = [written |-> FALSE]
    /\ raised = NoError
    /\ search = IdleSearch
    /\ criterion_text = "" /\ answer = "" /\ cc_result = <<FALSE, "">>
    /\ script = IdleScript

\* one call of is_token_limit_error
IsTokenLimitError ==
    /\ pc = "classify"
    /\ is_token_limit' = is_token_limit_error(error_msg)
    /\ pc' = "classified"
    /\ UNCHANGED <<error_msg, script, mainVars, search, ccVars>>

NextTokenLimit == IsTokenLimitError

SpecTokenLimit == InitTokenLimit /\ [][NextTokenLimit]_vars

(***************************************************************************)
(* Properties of is_token_limit_error (specification SpecTokenLimit).      *)
(***************************************************************************)
\* the pattern occurs in the message at position i when letters are compared
\* without regard to their case
OccursAt(msg, pattern, i) ==
    /\ i + Len(pattern) - 1 <= Len(msg)
    /\ \A k \in 1..Len(pattern) : LowerChar(Ch(msg, i + k - 1)) = LowerChar(Ch(pattern, k))

\* the two messages differ at most in the case of their letters
SameButCase(m1, m2) ==
    /\ Len(m1) = Len(m2)
    /\ \A k \in 1..Len(m1) : LowerChar(Ch(m1, k)) = LowerChar(Ch(m2, k))

\* C22: is_token_limit_error returns true exactly when some pattern of the
\* fixed list occurs in the message, letters compared case-insensitively; it
\* changes nothing but its result, messages that differ only in letter case
\* get the same result, and a message holding no pattern gets false.
C22_TokenLimitClassifier ==
    pc = "classified" =>
        /\ is_token_limit =
              (\E p \in 1..Len(token_limit_patterns) : \E i \in 1..Len(error_msg) :
                   OccursAt(error_msg, token_limit_patterns[p], i))
        /\ \A m \in ErrorMessages :
              SameButCase(m, error_msg) => is_token_limit_error(m) = is_token_limit

\* a message written in capitals was classified as a token-limit error, and
\* another message in the pool differs from it only in letter case
C22_Witness ==
    /\ pc = "classified"
    /\ is_token_limit
    /\ error_msg # Lower(error_msg)
    /\ ~is_token_limit_error_CaseSensitive(error_msg)
    /\ \E m \in ErrorMessages : m # error_msg /\ SameButCase(m, error_msg)

\* a message that holds no pattern was classified as no token-limit error
C22_NoPattern ==
    /\ pc = "classified"
    /\ ~is_token_limit
    /\ error_msg # ""

(***************************************************************************)
(* More properties of check_criterion (specification SpecCriterion).       *)
(***************************************************************************)
HasDigit(t) == \E i \in 1..Len(t) : Ch(t, i) \in DigitChars

\* C23: the numeric-coverage check considers only tokens that hold a digit:
\* for a criterion without any digit it never declares the criterion met,
\* whatever the non-blank answer.
C23_DigitFreeNotNumeric ==
    (pc = "returned" /\ ~OnlyWhitespace(answer) /\ ~HasDigit(criterion_text)) =>
        /\ FindNumbers(criterion_text) = <<>>
        /\ ~(cc_result[1] /\ IsNumericEvidence(cc_result[2]))

\* the tokens of the numeric check are the runs of digits and commas, each
\* with an optional fraction and per cent sign: a token holds a digit or a
\* comma, and a criterion without both is never met by the numeric check
C23_TokensOfDigitsOrCommas ==
    pc = "returned" =>
        /\ \A n \in 1..Len(FindNumbers(criterion_text)) :
              \E i \in 1..Len(FindNumbers(criterion_text)[n]) :
                  Ch(FindNumbers(criterion_text)[n], i) \in NumberChars
        /\ (~HasDigit(criterion_text) /\ ~Contains(criterion_text, ","))
              => ~IsNumericEvidence(cc_result[2])

\* a criterion without a digit was declared met by the numeric check against
\* an answer that shares no word with it
C23_CommaToken ==
    /\ pc = "returned"
    /\ ~HasDigit(criterion_text)
    /\ NoSharedWords(criterion_text, answer)
    /\ cc_result = <<TRUE, "Found required numbers: ,">>

\* the key-phrase check succeeds: at least 60% of the phrases of criterion c
\* are covered by answer a
PhrasesHold(c, a) ==
    /\ KeyPhrases(c) # <<>>
    /\ 10 * CoveredPhrases(c, a, FALSE) >= 6 * Len(KeyPhrases(c))

\* the word-overlap fallback succeeds
OverlapHolds(c, a) ==
    /\ Len(c) < ShortCriterionLen
    /\ WordSet(c) # {}
    /\ 10 * Cardinality(WordSet(c) \cap WordSet(a)) >= 6 * Cardinality(WordSet(c))

\* C24: for a non-blank answer the criterion is met iff the numeric check,
\* the key-phrase check or the word-overlap fallback succeeds; the evidence
\* returned is that of the first of the three, in this order, that succeeds;
\* when none succeeds the result is (False, "Criterion not clearly met in
\* answer").
C24_FirstSuccessWins ==
    (pc = "returned" /\ ~OnlyWhitespace(answer)) =>
        LET numeric == NumericHolds(criterion_text, answer)
            phrases == PhrasesHold(criterion_text, answer)
            overlap == OverlapHolds(criterion_text, answer)
        IN  /\ cc_result[1] <=> (numeric \/ phrases \/ overlap)
            /\ numeric =>
                  cc_result[2] = "Found required numbers: "
                                    \o Join(FindNumbers(criterion_text), ", ")
            /\ (~numeric /\ phrases) => IsKeyPhraseEvidence(cc_result[2])
            /\ (~numeric /\ ~phrases /\ overlap) => IsOverlapEvidence(cc_result[2])
            /\ ~(numeric \/ phrases \/ overlap) => cc_result = NotMet

\* C24 witness: all three checks succeed and the evidence is that of the
\* numeric check.
C24_Witness ==
    /\ pc = "returned"
    /\ NumericHolds(criterion_text, answer)
    /\ PhrasesHold(criterion_text, answer)
    /\ OverlapHolds(criterion_text, answer)
    /\ cc_result[1] /\ IsNumericEvidence(cc_result[2])

\* the key-phrase check succeeds after the numeric check failed, the word
\* overlap succeeding too
C24_SecondCheckWins ==
    /\ pc = "returned"
    /\ ~NumericHolds(criterion_text, answer)
    /\ PhrasesHold(criterion_text, answer)
    /\ OverlapHolds(criterion_text, answer)
    /\ cc_result[1] /\ IsKeyPhraseEvidence(cc_result[2])

\* no check succeeds for a non-blank answer
C24_NoneSucceeds ==
    /\ pc = "returned"
    /\ ~OnlyWhitespace(answer)
    /\ cc_result = NotMet

(***************************************************************************)
(* The accumulation scripts (update_answers.py, add_batch_answers.py,      *)
(* add_oracle_answer.py and their like): each run reads the answer store,  *)
(* adds the records written in the script and writes the store back.  The  *)
(* runs do not overlap: one script runs at a time.                         *)
(***************************************************************************)
\* the scripts that extend the store with a list of records, and those that
\* append one record
ExtendScripts == {"update_answers", "add_batch_answers"}
AppendScripts == {"add_oracle_answer"}

\* runs of the scripts, and records of one extending run
MaxRuns == 2
MaxBatch == 2

\* the records the scripts supply: two answers to question 1 and one to
\* question 2
BatchItems ==
    { [question_number |-> 1, question |-> "Q1",
       answer |-> "FINAL ANSWER: Revenue grew 44.7%",
       sources |-> FilingOnly],
      [question_number |-> 1, question |-> "Q1",
       answer |-> "FINAL ANSWER: Revenue grew 44.7%, income rose",
       sources |-> SecondarySources],
      [question_number |-> 2, question |-> "Q2",
       answer |-> "I think operations rose from 1,250",
       sources |-> <<>>] }

\* new_answers of an extending script
Batches == UNION {[1..n -> BatchItems] : n \in 1..MaxBatch}

\* the store before the first run: empty, or an answer to question 1 and
\* one to question 3
InitialStores ==
    { <<>>,
      << [question_number |-> 1, question |-> "Q1",
          answer |-> "final answer: revenue grew 44%",
          sources |-> NewsSources],
         [question_number |-> 3, question |-> "Q3",
          answer |-> "FINAL ANSWER: 44%",
          sources |-> NewsSources] >> }

\* the new records put before the records read
Extended_Prepended(list, new_answers) == new_answers \o list

\* answers.extend(new_answers)
Extended(list, new_answers) == list \o new_answers

InitStore ==
    /\ pc = "store"
    /\ answers_list \in InitialStores
    /\ script = IdleScript
    /\ csv_rows = <<>>
    /\ ground_truth = <<>> /\ answers = <<>>
    /\ q_num = 0 /\ graded_results = <<>> /\ g = IdleLocals
    /\ output = [written |-> FALSE]
    /\ raised = NoError
    /\ search = IdleSearch
    /\ criterion_text = "" /\ answer = "" /\ cc_result = <<FALSE, "">>
    /\ error_msg = "" /\ is_token_limit = FALSE

\* a run starts: json.load of the store (lines 5-6), and the records the
\* script holds
ReadAnswers ==
    /\ pc = "store"
    /\ script.runs < MaxRuns
    /\ \/ \E name \in ExtendScripts, batch \in Batches :
            script' = [script EXCEPT !.name = name, !.answers = answers_list,
                                     !.new_answers = batch]
       \/ \E name \in AppendScripts, new_answer \in BatchItems :
            script' = [script EXCEPT !.name = name, !.answers = answers_list,
                                     !.new_answers = <<new_answer>>]
    /\ pc' = "script_read"
    /\ UNCHANGED <<mainVars, search, ccVars, tlVars>>

\* answers.extend(new_answers), or answers.append(new_answer)
AddAnswers ==
    /\ pc = "script_read"
    /\ script' = [script EXCEPT !.answers =
                     IF script.name \in ExtendScripts
                     THEN Extended(script.answers, script.new_answers)
                     ELSE Append(script.answers, script.new_answers[1])]
    /\ pc' = "script_added"
    /\ UNCHANGED <<mainVars, search, ccVars, tlVars>>

\* json.dump(answers, f): the store is replaced by the list, and the run
\* ends
SaveAnswers ==
    /\ pc = "script_added"
    /\ answers_list' = script.answers
    /\ script' = [IdleScript EXCEPT !.runs = script.runs + 1]
    /\ pc' = "store"
    /\ UNCHANGED <<csv_rows, ground_truth, answers, q_num, graded_results, g, output,
                   raised, search, ccVars, tlVars>>

NextStore == ReadAnswers \/ AddAnswers \/ SaveAnswers

SpecStore == InitStore /\ [][NextStore]_vars

(***************************************************************************)
(* Properties of the accumulation scripts (specification SpecStore).       *)
(***************************************************************************)
\* the index of the last record of the list with question number q
LastIndexOf(list, q) ==
    CHOOSE i \in 1..Len(list) :
        /\ list[i].question_number = q
        /\ \A j \in (i + 1)..Len(list) : list[j].question_number # q

NumbersIn(list) == {list[i].question_number : i \in 1..Len(list)}

\* C25: a run of an accumulation script leaves the store as it was followed
\* by the records of the run, in their order: no record is removed, moved or
\* changed and the length grows by the number of records supplied; nothing
\* else writes the store; and load_answers on the store a run leaves returns,
\* for every question number, the answer and the sources of the last record
\* with that number.
C25_RunsAppend ==
    [][/\ (pc = "script_added" /\ pc' = "store") =>
             /\ answers_list' = answers_list \o script.new_answers
             /\ Len(answers_list') = Len(answers_list) + Len(script.new_answers)
             /\ \A i \in 1..Len(answers_list) : answers_list'[i] = answers_list[i]
             /\ DOMAIN load_answers(answers_list') = NumbersIn(answers_list')
             /\ \A q \in NumbersIn(answers_list') :
                   LET last == answers_list'[LastIndexOf(answers_list', q)]
                   IN  /\ load_answers(answers_list')[q].answer = Get(last, "answer", "")
                       /\ load_answers(answers_list')[q].sources = Get(last, "sources", <<>>)
       /\ ~(pc = "script_added" /\ pc' = "store") => answers_list' = answers_list]_vars

\* C25 witness: after two runs on a store of two records the store holds
\* four records or more, three of them answers to question 1 that differ,
\* and load_answers returns the last of them and the untouched answer to
\* question 3.
C25_Witness ==
    /\ pc = "store"
    /\ script.runs >= 2
    /\ Len(answers_list) >= 4
    /\ answers_list[1].question_number = 1 /\ answers_list[2].question_number = 3
    /\ Cardinality({answers_list[i].answer :
                       i \in {j \in 1..Len(answers_list) :
                                 answers_list[j].question_number = 1}}) = 3
    /\ load_answers(answers_list)[1].answer =
          answers_list[LastIndexOf(answers_list, 1)].answer
    /\ load_answers(answers_list)[1].answer # answers_list[1].answer
    /\ load_answers(answers_list)[3].answer = answers_list[2].answer

(***************************************************************************)
(* More properties of the grading run (specification Spec).                *)
(***************************************************************************)
\* C26: in the summary of a run, answered + attempted + skipped is
\* total_questions, which is the number of results the summary was computed
\* from, each result having one of the three statuses.
C26_StatusCountsAddUp ==
    pc \in {"save", "done"} =>
        /\ output.summary.answered + output.summary.attempted + output.summary.skipped
              = output.summary.total_questions
        /\ output.summary.total_questions = Len(graded_results)
        /\ output.questions = graded_results
        /\ \A i \in 1..Len(graded_results) :
              graded_results[i].status \in {"Answered", "Attempted", "Skipped"}

\* C26 witness: a summary of three results, one of each status.
C26_Witness ==
    /\ pc = "done"
    /\ output.summary.total_questions = 3
    /\ output.summary.answered = 1
    /\ output.summary.attempted = 1
    /\ output.summary.skipped = 1

\* C27: in every result of grade_answer the final score is at most the
\* correctness score, and equal to it when the status is Answered; a Skipped
\* result has final score 0 and no contradictions flag, and each of its
\* rubric entries is unmet with the evidence "No answer provided".
C27_FinalAtMostCorrectness ==
    \A i \in 1..Len(graded_results) :
        LET r == graded_results[i]
        IN  /\ r.final_score <= r.correctness_score
            /\ r.status = "Answered" => r.final_score = r.correctness_score
            /\ r.status = "Skipped" =>
                  /\ r.final_score = 0
                  /\ ~r.has_contradictions
                  /\ \A k \in 1..Len(r.rubric_results) :
                        /\ ~r.rubric_results[k].met
                        /\ r.rubric_results[k].evidence = "No answer provided"

\* C27 witness: the results of a run hold a Skipped one for a blank answer
\* that came with sources, its rubric having correctness and contradiction
\* criteria, an Attempted one whose final score is below its correctness
\* score, and an Answered one with a positive score.
C27_Witness ==
    /\ pc = "done"
    /\ \E i \in 1..Len(graded_results) :
          LET r == graded_results[i]
          IN  /\ r.status = "Skipped"
              /\ r.question_num \in DOMAIN answers
              /\ answers[r.question_num].answer # ""
              /\ Len(r.rubric_results) >= 2
              /\ \E k \in 1..Len(r.rubric_results) : r.rubric_results[k].type = "contradiction"
    /\ \E i \in 1..Len(graded_results) :
          /\ graded_results[i].status = "Attempted"
          /\ graded_results[i].final_score < graded_results[i].correctness_score
    /\ \E i \in 1..Len(graded_results) :
          /\ graded_results[i].status = "Answered"
          /\ graded_results[i].final_score > 0

\* the positions of grade_answer between its call and its return
GradePcs == {"status", "correctness", "contradictions", "penalty", "sources", "final"}

\* the number of criteria of the operator among the first j of the rubric
CountUpTo(rubric, operator, j) ==
    Cardinality({i \in 1..j : rubric[i].operator = operator})

\* the entry of rubric_results for criterion j of the rubric, the correctness
\* entries coming first
EntryFor(rubric, results, j) ==
    results[IF rubric[j].operator = "correctness"
            THEN CountUpTo(rubric, "correctness", j)
            ELSE CountUpTo(rubric, "correctness", Len(rubric))
                   + CountUpTo(rubric, "contradiction", j)]

\* C28: rubric_results holds one entry for each criterion whose operator is
\* correctness or contradiction, the correctness entries first and the
\* contradiction entries after them, each group in rubric order, each entry
\* with the text of its criterion and the met flag of check_criterion;
\* criteria of another operator have no entry and the scores depend on the
\* entries alone; grade_answer changes neither the rubric nor the answer
\* record nor the sources.
C28_RubricResults ==
    [][/\ pc = "final" =>
             LET rubric == ground_truth[q_num].rubric
                 results == g.rubric_results
                 graded == {j \in 1..Len(rubric) :
                               rubric[j].operator \in {"correctness", "contradiction"}}
                 correct == EntriesOf(results, "correctness")
                 met == Len(SelectSeq(correct, LAMBDA e : e.met))
                 flagged == \E k \in 1..Len(results) :
                               /\ results[k].type = "contradiction"
                               /\ ~results[k].met
                               /\ g.status = "Answered"
                 score == Penalized(CorrectnessScore(met, Len(correct), g.status), flagged)
                 result == graded_results'[Len(graded_results')]
             IN  /\ Len(results) = Cardinality(graded)
                 /\ \A j \in graded :
                       LET e == EntryFor(rubric, results, j)
                       IN  /\ e.type = rubric[j].operator
                           /\ e.criteria = rubric[j].criteria
                           /\ e.met = check_criterion(rubric[j].criteria,
                                                      SubmittedText(q_num), "")[1]
                 /\ result.rubric_results = results
                 /\ result.correctness_score = Round1(score)
                 /\ result.final_score = Round1(FinalScore(g.status, score))
       /\ pc \in GradePcs =>
             /\ ground_truth' = ground_truth
             /\ answers' = answers
             /\ g.rubric = ground_truth[q_num].rubric
             /\ g.sources = SubmittedSources(q_num)
             /\ g.answer_text = SubmittedText(q_num)]_vars

\* C28 witness: the results of a rubric whose first criterion is a
\* contradiction and whose other criteria are correctness ones start with
\* the correctness entries, the contradiction entry coming last.
C28_Witness ==
    /\ pc = "final"
    /\ Len(g.rubric) > 2
    /\ g.rubric[1].operator = "contradiction"
    /\ g.rubric_results[1].type = "correctness"
    /\ g.rubric_results[Len(g.rubric_results)].type = "contradiction"
    /\ \E k \in 1..Len(g.rubric_results) : g.rubric_results[k].met

\* a rubric with a criterion of another operator is graded: the criterion
\* has no entry
C28_OtherOperator ==
    /\ pc = "final"
    /\ \E j \in 1..Len(g.rubric) : g.rubric[j].operator = "format"
    /\ Len(g.rubric_results) = Len(g.rubric) - 1
    /\ g.met_count = 3

=============================================================================
